---- MODULE Spec2Model ----
(***************************************************************************)
(* Workflow engine of the police case-tracking backend: the complaint      *)
(* workflow (cases/views.py), the suspect / interrogation / trial chain     *)
(* (investigations/views.py, cases/views.py) and the tip / reward workflow  *)
(* (investigations/views.py), each request handler being one action.       *)
(***************************************************************************)
EXTENDS Integers, Sequences, FiniteSets, TLC

(***************************************************************************)
(* Bounds of the model.                                                    *)
(***************************************************************************)
MaxMsgLen == 1
MaxTime == 1
NumRequests == 2

(***************************************************************************)
(* Program constants.                                                      *)
(***************************************************************************)
NullId == 0
MaxInvalidAttempts == 3

(***************************************************************************)
(* Text values.  A text is a sequence of characters over a two-letter      *)
(* alphabet: "sp" is white space, "x" is any other character.  Absent      *)
(* stands for a key that the request payload does not carry.               *)
(***************************************************************************)
Chars == {"sp", "x"}
Texts == UNION {[1..k -> Chars] : k \in 0..MaxMsgLen}
Absent == <<"ABSENT">>
Payloads == Texts \cup {Absent}

RECURSIVE lstrip(_)
lstrip(s) == IF s # <<>> /\ Head(s) = "sp" THEN lstrip(Tail(s)) ELSE s

RECURSIVE rstrip(_)
rstrip(s) ==
    IF s # <<>> /\ s[Len(s)] = "sp" THEN rstrip(SubSeq(s, 1, Len(s) - 1)) ELSE s

strip(s) == rstrip(lstrip(s))

\* dict.get(key, default) on the validated payload
get(v, default) == IF v = Absent THEN default ELSE v

\* (attrs.get(key) or "")
get_or_empty(v) == IF v = Absent THEN <<>> ELSE v

(***************************************************************************)
(* Users, roles and the capability predicates of common/role_helpers.py.   *)
(***************************************************************************)
Nobody == "nobody"

Role(u) ==
    CASE u = "cadet"     -> "Cadet"
      [] u = "officer"   -> "Officer"
      [] u = "officer2"  -> "Officer"
      [] u = "detective" -> "Detective"
      [] u = "detective2" -> "Detective"
      [] u = "sergeant"  -> "Sergeant"
      [] u = "captain"   -> "Captain"
      [] u = "chief"     -> "Chief"
      [] u = "judge"     -> "Judge"
      [] u = "admin"     -> "Admin"
      [] OTHER           -> "none"

\* accounts/role_bootstrap.py: the permissions a role's group is given, restricted
\* to the permissions the handlers below test
DEFAULT_ROLE_PERMISSIONS(role) ==
    CASE role = "Cadet" ->
            {"cases.view_all_complaints", "cases.cadet_review_complaint"}
      [] role = "Officer" ->
            {"cases.officer_review_complaint", "investigations.officer_review_tip",
             "cases.view_all_scene_reports", "cases.create_scene_report",
             "cases.approve_scene_report"}
      [] role = "Admin" ->
            {"cases.view_all_cases", "cases.view_all_complaints",
             "cases.cadet_review_complaint", "cases.officer_review_complaint",
             "cases.view_all_scene_reports", "cases.create_scene_report",
             "cases.approve_scene_report", "cases.auto_approve_scene_report",
             "cases.judge_verdict_trial",
             "investigations.propose_case_suspect",
             "investigations.review_case_suspect",
             "investigations.submit_detective_interrogation",
             "investigations.submit_sergeant_interrogation",
             "investigations.submit_captain_interrogation_decision",
             "investigations.review_critical_interrogation",
             "investigations.officer_review_tip",
             "investigations.detective_review_tip",
             "investigations.reward_lookup"}
      [] role = "Detective" ->
            {"investigations.propose_case_suspect",
             "investigations.review_case_suspect",
             "investigations.submit_detective_interrogation",
             "investigations.detective_review_tip"}
      [] role = "Sergeant" ->
            {"investigations.review_case_suspect",
             "investigations.submit_sergeant_interrogation"}
      [] role = "Captain" ->
            {"cases.view_all_cases",
             "cases.view_all_scene_reports", "cases.create_scene_report",
             "cases.approve_scene_report",
             "investigations.submit_captain_interrogation_decision",
             "investigations.officer_review_tip"}
      [] role = "Chief" ->
            {"cases.view_all_cases",
             "cases.view_all_scene_reports", "cases.create_scene_report",
             "cases.approve_scene_report", "cases.auto_approve_scene_report",
             "investigations.submit_captain_interrogation_decision",
             "investigations.review_critical_interrogation",
             "investigations.officer_review_tip"}
      [] role = "Judge" -> {"cases.view_all_cases", "cases.judge_verdict_trial"}
      [] OTHER -> {}

\* user.has_perm(codename): the users hold the permissions of their role's group
has_perm(user, codename) == codename \in DEFAULT_ROLE_PERMISSIONS(Role(user))

has_perm_or_role(user, permission_codenames, group_names) ==
    \/ \E codename \in permission_codenames : has_perm(user, codename)
    \/ Role(user) \in group_names

user_can_see_all_complaints(user) ==
    has_perm_or_role(user,
                     {"cases.view_all_complaints", "cases.cadet_review_complaint",
                      "cases.officer_review_complaint"},
                     {"Cadet", "Officer"})

user_can_cadet_review_complaint(user) ==
    has_perm_or_role(user, {"cases.cadet_review_complaint"}, {"Cadet"})

user_can_officer_review_complaint(user) ==
    has_perm_or_role(user, {"cases.officer_review_complaint"}, {"Officer"})

user_can_view_all_cases(user) ==
    has_perm_or_role(user, {"cases.view_all_cases"}, {"Chief", "Captain", "Admin"})

user_can_judge_verdict_trial(user) ==
    has_perm_or_role(user, {"cases.judge_verdict_trial"}, {"Judge"})

user_can_create_scene_report(user) ==
    has_perm_or_role(user, {"cases.create_scene_report"}, {"Officer", "Captain", "Chief"})

user_can_approve_scene_report(user) ==
    has_perm_or_role(user, {"cases.approve_scene_report"}, {"Officer", "Captain", "Chief"})

user_can_auto_approve_scene_report(user) ==
    has_perm_or_role(user, {"cases.auto_approve_scene_report"}, {"Chief", "Admin"})

VARIABLES
    complaint,      \* the Complaint row, or NoComplaint
    complainants,   \* ComplaintComplainant rows: user -> [status]
    cases,          \* Case rows created by officer approval, in creation order
    participants,   \* CaseParticipant rows: set of <<case id, user>>
    case,           \* the Case under investigation, or NoCase
    suspect,        \* its CaseSuspect row, or NoSuspect
    interrogation,  \* the suspect's Interrogation row, or NoInterrogation
    trial,          \* the Trial row of (case, suspect), or NoTrial
    notifications,  \* Notification rows, in creation order
    now,            \* the value timezone.now() returns
    tip,            \* the Tip row, or NoTip
    rewards,        \* Reward rows, in creation order
    scene_report,   \* the SceneReport row, or NoSceneReport
    scene_case,     \* the Case the scene report owns, or NoCase
    scene_witnesses, \* SceneWitness rows of the report: set of <<phone, national_id>>
    suspects,       \* CaseSuspect rows of all cases, with their case and interrogation
    most_wanted,    \* the last most-wanted response, or NotComputed
    requests,       \* requests in flight: id -> [pc, ..., local, code]
    resp            \* the last request and its response

complaintVars == <<complaint, complainants, cases, participants>>
suspectVars == <<case, suspect, interrogation, trial, notifications, now>>
tipVars == <<tip, rewards>>
sceneVars == <<scene_report, scene_case, scene_witnesses>>
wantedVars == <<suspects, most_wanted>>
vars == <<complaintVars, suspectVars, tipVars, sceneVars, wantedVars, requests, resp>>

\* a row that does not exist
NoCase == [id |-> NullId]
NoSuspect == [id |-> NullId]
NoInterrogation == [id |-> NullId]
NoTrial == [id |-> NullId]
NoTip == [id |-> NullId]
NoSceneReport == [id |-> NullId]

NoInvestigation ==
    /\ case = NoCase
    /\ suspect = NoSuspect
    /\ interrogation = NoInterrogation
    /\ trial = NoTrial
    /\ notifications = <<>>
    /\ now = 0

NoTipWorld == tip = NoTip /\ rewards = <<>>

NotComputed == [limit |-> "none"]

NoWantedWorld == suspects = <<>> /\ most_wanted = NotComputed

NoSceneWorld ==
    /\ scene_report = NoSceneReport
    /\ scene_case = NoCase
    /\ scene_witnesses = {}

(***************************************************************************)
(* Complaint workflow: cases/views.py, ComplaintViewSet.                   *)
(***************************************************************************)
NoComplaint == [id |-> NullId]

\* How a request carried its message: not at all, as white space only, or as text
MessageKind(message) ==
    IF message = Absent THEN "missing"
    ELSE IF \A i \in 1..Len(message) : message[i] = "sp" THEN "blank"
    ELSE "text"

NoResp == [op |-> "none", user |-> Nobody, code |-> "none",
           decision |-> "none", message |-> "none"]

\* A request that was refused before its payload was read
Refused(op, user, code) ==
    [op |-> op, user |-> user, code |-> code, decision |-> "none", message |-> "none"]

Response(op, user, code, decision, message) ==
    [op |-> op, user |-> user, code |-> code, decision |-> decision,
     message |-> MessageKind(message)]

ComplaintActors == {"citizen", "citizen2", "cadet", "officer", "stranger"}
Decisions == {"approve", "reject"}
IdListInputs == {{}, {"citizen2"}}
TitleInputs == {Absent, <<>>, <<"x">>}
CrimeLevelInputs == {"ABSENT", "", "critical"}
Faults == {"none", "case_create", "participant_create", "complaint_save"}

\* ComplaintCreateSerializer.create: the rows a new complaint starts with
NewComplaint(user) ==
    [id |-> 1, title |-> <<"x", "x">>, description |-> <<"x", "x">>,
     crime_level |-> "level_1", current_status |-> "submitted",
     invalid_attempts |-> 0, cadet_message |-> <<>>, officer_message |-> <<>>,
     created_by |-> user, cadet_reviewed_by |-> Nobody,
     officer_reviewed_by |-> Nobody, case |-> NullId]

NewComplainants(user, additional_ids) ==
    [u \in {user} \cup additional_ids |->
        IF u = user THEN [status |-> "approved"] ELSE [status |-> "pending"]]

\* ComplaintViewSet.get_queryset: the complaints the user can address
InComplaintQueryset(user) ==
    \/ has_perm(user, "cases.view_all_complaints")
    \/ has_perm(user, "cases.cadet_review_complaint")
    \/ has_perm(user, "cases.officer_review_complaint")
    \/ complaint.created_by = user
    \/ user \in DOMAIN complainants

\* permissions.CanViewComplaint.has_object_permission
CanViewComplaint(user) ==
    \/ user_can_see_all_complaints(user)
    \/ complaint.created_by = user
    \/ user \in DOMAIN complainants

\* get_permissions (checked before the handler runs), then get_object
ComplaintAccess(action, user) ==
    IF action = "cadet_review" /\ ~user_can_cadet_review_complaint(user)
    THEN "permission_denied"
    ELSE IF action = "officer_review" /\ ~user_can_officer_review_complaint(user)
    THEN "permission_denied"
    ELSE IF ~InComplaintQueryset(user) THEN "not_found"
    ELSE IF ~CanViewComplaint(user) THEN "permission_denied"
    ELSE "ok"

\* the source states each transition accepts
ResubmitAllowedFrom == {"cadet_rejected"}

\* Mutant: a cadet may review a complaint a cadet has rejected
CadetReviewAllowedFrom_rejected_too == {"submitted", "officer_rejected", "cadet_rejected"}

CadetReviewAllowedFrom == {"submitted", "officer_rejected"}
OfficerReviewAllowedFrom == {"cadet_approved"}

\* serializers.CharField(required=False): trims, then rejects a blank value
CharFieldValid(v) == v = Absent \/ strip(v) # <<>>

\* CadetReviewSerializer.validate / OfficerReviewSerializer.validate
ReviewSerializer_validate(decision, message) ==
    ~(decision = "reject" /\ strip(get(message, <<>>)) = <<>>)

\* resubmit: the checks made before the payload is read
resubmit_precheck(user) ==
    LET access == ComplaintAccess("resubmit", user) IN
    IF access # "ok" THEN access
    ELSE IF complaint.current_status \notin ResubmitAllowedFrom THEN "invalid_state"
    ELSE IF complaint.current_status = "invalid"
            \/ complaint.invalid_attempts >= MaxInvalidAttempts
    THEN "complaint_invalid"
    ELSE "ok"

\* Mutant: the limit is compared with > instead of >=
resubmit_apply_off_by_one(c, title, description, crime_level) ==
    LET c1 == [c EXCEPT
                 !.title = IF title = Absent THEN @ ELSE strip(title),
                 !.description = IF description = Absent THEN @ ELSE strip(description),
                 !.crime_level = IF crime_level = "ABSENT" THEN @ ELSE crime_level]
        c2 == [c1 EXCEPT !.invalid_attempts = @ + 1]
    IN  IF c2.invalid_attempts > MaxInvalidAttempts
        THEN [c2 EXCEPT !.current_status = "invalid"]
        ELSE [c2 EXCEPT !.current_status = "submitted", !.cadet_message = <<>>]

\* resubmit: the complaint after a valid payload has been applied
resubmit_apply(c, title, description, crime_level) ==
    LET c1 == [c EXCEPT
                 !.title = IF title = Absent THEN @ ELSE strip(title),
                 !.description = IF description = Absent THEN @ ELSE strip(description),
                 !.crime_level = IF crime_level = "ABSENT" THEN @ ELSE crime_level]
        c2 == [c1 EXCEPT !.invalid_attempts = @ + 1]
    IN  IF c2.invalid_attempts >= MaxInvalidAttempts
        THEN [c2 EXCEPT !.current_status = "invalid"]
        ELSE [c2 EXCEPT !.current_status = "submitted", !.cadet_message = <<>>]

resubmit(user) ==
    /\ complaint # NoComplaint
    /\ UNCHANGED <<suspectVars, tipVars, sceneVars, wantedVars, requests>>
    /\ LET pre == resubmit_precheck(user) IN
       IF pre # "ok"
       THEN /\ resp' = Refused("resubmit", user, pre)
            /\ UNCHANGED <<complaint, complainants, cases, participants>>
       ELSE \E title \in TitleInputs, description \in TitleInputs,
               crime_level \in CrimeLevelInputs :
               IF ~(CharFieldValid(title) /\ CharFieldValid(description)
                    /\ crime_level # "")
               THEN /\ resp' = Refused("resubmit", user, "validation_error")
                    /\ UNCHANGED <<complaint, complainants, cases, participants>>
               ELSE /\ complaint' = resubmit_apply(complaint, title, description, crime_level)
                    /\ resp' = Refused("resubmit", user, "ok")
                    /\ UNCHANGED <<complainants, cases, participants>>

\* Mutant: the two state checks in the opposite order
cadet_review_precheck_swapped(user) ==
    LET access == ComplaintAccess("cadet_review", user) IN
    IF access # "ok" THEN access
    ELSE IF complaint.current_status = "invalid" THEN "complaint_invalid"
    ELSE IF complaint.current_status \notin CadetReviewAllowedFrom THEN "invalid_state"
    ELSE "ok"

\* cadet_review: the checks made before the payload is read
cadet_review_precheck(user) ==
    LET access == ComplaintAccess("cadet_review", user) IN
    IF access # "ok" THEN access
    ELSE IF complaint.current_status \notin CadetReviewAllowedFrom THEN "invalid_state"
    ELSE IF complaint.current_status = "invalid" THEN "complaint_invalid"
    ELSE "ok"

\* cadet_review: the loop over the complaint's ComplaintComplainant rows
cadet_review_complainants(rows, user, approve_ids, reject_ids) ==
    IF approve_ids = {} /\ reject_ids = {} THEN rows
    ELSE [u \in DOMAIN rows |->
            IF u \in reject_ids THEN [status |-> "rejected"]
            ELSE IF u \in approve_ids THEN [status |-> "approved"]
            ELSE rows[u]]

\* cadet_review: the complaint-level decision
cadet_review_apply(c, user, decision, message) ==
    IF decision = "reject"
    THEN [c EXCEPT !.cadet_reviewed_by = user,
                   !.current_status = "cadet_rejected",
                   !.cadet_message = strip(get(message, <<>>))]
    ELSE [c EXCEPT !.cadet_reviewed_by = user,
                   !.current_status = "cadet_approved",
                   !.cadet_message = <<>>]

cadet_review(user) ==
    /\ complaint # NoComplaint
    /\ UNCHANGED <<suspectVars, tipVars, sceneVars, wantedVars, requests>>
    /\ LET access == ComplaintAccess("cadet_review", user) IN
       IF access # "ok"
       THEN /\ resp' = Refused("cadet_review", user, access)
            /\ UNCHANGED <<complaint, complainants, cases, participants>>
       ELSE \E decision \in Decisions, message \in Payloads :
       IF cadet_review_precheck(user) # "ok"
       THEN /\ resp' = Response("cadet_review", user, cadet_review_precheck(user),
                                decision, message)
            /\ UNCHANGED <<complaint, complainants, cases, participants>>
       ELSE IF ~ReviewSerializer_validate(decision, message)
       THEN /\ resp' = Response("cadet_review", user, "validation_error", decision, message)
            /\ UNCHANGED <<complaint, complainants, cases, participants>>
       ELSE \E approve_ids \in IdListInputs, reject_ids \in IdListInputs :
               /\ complainants' = cadet_review_complainants(complainants, user,
                                                            approve_ids, reject_ids)
               /\ complaint' = cadet_review_apply(complaint, user, decision, message)
               /\ resp' = Response("cadet_review", user, "ok", decision, message)
               /\ UNCHANGED <<cases, participants>>

\* officer_review: the checks made before the payload is read
officer_review_precheck(user) ==
    LET access == ComplaintAccess("officer_review", user) IN
    IF access # "ok" THEN access
    ELSE IF complaint.current_status \notin OfficerReviewAllowedFrom THEN "invalid_state"
    ELSE IF complaint.current_status = "invalid" THEN "complaint_invalid"
    ELSE "ok"

\* officer_review, reject branch: the complaint that is saved
officer_review_reject(c, user, message) ==
    [c EXCEPT !.officer_reviewed_by = user,
              !.current_status = "officer_rejected",
              !.officer_message = strip(get(message, <<>>))]

\* Mutant: the approve branch creates a Case whether or not the complaint has one
NeedsCase_always(c) == TRUE

\* officer_review, approve branch: "if complaint.case_id is None"
NeedsCase(c) == c.case = NullId

\* Case.objects.create(...) of the approve branch
NewCase(c, id) ==
    [id |-> id, title |-> c.title, description |-> c.description,
     crime_level |-> c.crime_level, status |-> "active", formed |-> TRUE,
     created_by |-> c.created_by]

\* Mutant: every complainant becomes a participant, whatever the entry's status
ApprovedComplainants_any_status(rows) == DOMAIN rows

\* the users of the complaint's ComplaintComplainant rows with status approved
ApprovedComplainants(rows) == {u \in DOMAIN rows : rows[u].status = "approved"}

\* officer_review, approve branch: the in-memory complaint before complaint.save()
officer_review_approve(c, user, case_id) ==
    LET c1 == [c EXCEPT !.officer_reviewed_by = user,
                        !.current_status = "officer_approved",
                        !.officer_message = <<>>]
    IN  IF NeedsCase(c) THEN [c1 EXCEPT !.case = case_id] ELSE c1

\* Mutant: no transaction, every statement is committed as it runs
transaction_atomic_autocommit(before, written, raised) == written

\* "with transaction.atomic()": what the database holds when the block is left;
\* before is the state at entry, written the state the block's statements produced
transaction_atomic(before, written, raised) == IF raised THEN before ELSE written

\* The statements of the approve branch that ran before the fault (none: all of them)
\* as the database state <<complaint, cases, participants>> they produce.
officer_review_written(c, rows, cs, ps, user, fault, some_users) ==
    LET id == Len(cs) + 1
        cs1 == IF NeedsCase(c) THEN Append(cs, NewCase(c, id)) ELSE cs
        ps1 == IF NeedsCase(c)
               THEN ps \cup {<<id, u>> : u \in ApprovedComplainants(rows)} ELSE ps
        psPartial == IF NeedsCase(c) THEN ps \cup {<<id, u>> : u \in some_users} ELSE ps
    IN  CASE fault = "case_create" -> <<c, cs, ps>>
          [] fault = "participant_create" -> <<c, cs1, psPartial>>
          [] fault = "complaint_save" -> <<c, cs1, ps1>>
          [] OTHER -> <<officer_review_approve(c, user, id), cs1, ps1>>

officer_review(user) ==
    /\ complaint # NoComplaint
    /\ UNCHANGED <<suspectVars, tipVars, sceneVars, wantedVars, requests>>
    /\ LET access == ComplaintAccess("officer_review", user) IN
       IF access # "ok"
       THEN /\ resp' = Refused("officer_review", user, access)
            /\ UNCHANGED <<complaint, complainants, cases, participants>>
       ELSE \E decision \in Decisions, message \in Payloads :
       IF officer_review_precheck(user) # "ok"
       THEN /\ resp' = Response("officer_review", user, officer_review_precheck(user),
                                decision, message)
            /\ UNCHANGED <<complaint, complainants, cases, participants>>
       ELSE IF ~ReviewSerializer_validate(decision, message)
       THEN /\ resp' = Response("officer_review", user, "validation_error", decision, message)
            /\ UNCHANGED <<complaint, complainants, cases, participants>>
       ELSE IF decision = "reject"
       THEN /\ complaint' = officer_review_reject(complaint, user, message)
            /\ resp' = Response("officer_review", user, "ok", decision, message)
            /\ UNCHANGED <<complainants, cases, participants>>
       ELSE \E fault \in Faults :
            \E some_users \in SUBSET ApprovedComplainants(complainants) :
               /\ fault = "participant_create"
                    => some_users # ApprovedComplainants(complainants)
               /\ fault # "participant_create" => some_users = {}
               /\ LET before == <<complaint, cases, participants>>
                      written == officer_review_written(complaint, complainants, cases,
                                     participants, user, fault, some_users)
                      after == transaction_atomic(before, written, fault # "none")
                  IN  /\ complaint' = after[1]
                      /\ cases' = after[2]
                      /\ participants' = after[3]
               /\ resp' = Response("officer_review", user,
                                   IF fault = "none" THEN "ok" ELSE "server_error",
                                   decision, message)
               /\ UNCHANGED complainants

InitComplaint ==
    /\ complaint = NewComplaint("citizen")
    /\ complainants = NewComplainants("citizen", {"citizen2"})
    /\ cases = <<>>
    /\ participants = {}
    /\ NoInvestigation
    /\ NoTipWorld
    /\ NoSceneWorld
    /\ NoWantedWorld
    /\ requests = <<>>
    /\ resp = NoResp

NextComplaint ==
    \/ \E user \in ComplaintActors : resubmit(user)
    \/ \E user \in ComplaintActors : cadet_review(user)
    \/ \E user \in ComplaintActors : officer_review(user)

SpecComplaint == InitComplaint /\ [][NextComplaint]_vars

(***************************************************************************)
(* ComplaintViewSet is a ModelViewSet registered with the router, so next  *)
(* to the three workflow actions it serves PATCH and DELETE on a complaint *)
(* of the caller's queryset, with ComplaintDetailSerializer.                *)
(***************************************************************************)
StatusPatchInputs == {"ABSENT", "cadet_approved", "officer_approved"}

\* ModelSerializer.update for a payload that carries at most current_status: every
\* field the payload carries is assigned, then save()
ComplaintDetailSerializer_update(c, current_status) ==
    [c EXCEPT
       !.current_status = IF current_status = "ABSENT" THEN @ ELSE current_status]

partial_update(user) ==
    /\ complaint # NoComplaint
    /\ UNCHANGED <<suspectVars, tipVars, sceneVars, wantedVars, requests>>
    /\ UNCHANGED <<complainants, cases, participants>>
    /\ IF ~InComplaintQueryset(user)
       THEN /\ resp' = Refused("partial_update", user, "not_found")
            /\ UNCHANGED complaint
       ELSE \E current_status \in StatusPatchInputs :
               /\ complaint' = ComplaintDetailSerializer_update(complaint, current_status)
               /\ resp' = Refused("partial_update", user, "ok")

\* DestroyModelMixin.destroy: the row and, by cascade, its complainant rows
destroy(user) ==
    /\ complaint # NoComplaint
    /\ UNCHANGED <<suspectVars, tipVars, sceneVars, wantedVars, requests>>
    /\ UNCHANGED <<cases, participants>>
    /\ IF ~InComplaintQueryset(user)
       THEN /\ resp' = Refused("destroy", user, "not_found")
            /\ UNCHANGED <<complaint, complainants>>
       ELSE /\ complaint' = NoComplaint
            /\ complainants' = <<>>
            /\ resp' = Refused("destroy", user, "ok")

\* the callers of the workflow actions and of the generic endpoints
ApiActors == {"citizen", "cadet", "officer"}
GenericEndpointCallers == {"citizen", "stranger"}

\* a complaint filed by one citizen, with no additional complainants
InitComplaintApi ==
    /\ complaint = NewComplaint("citizen")
    /\ complainants = NewComplainants("citizen", {})
    /\ cases = <<>>
    /\ participants = {}
    /\ NoInvestigation
    /\ NoTipWorld
    /\ NoSceneWorld
    /\ NoWantedWorld
    /\ requests = <<>>
    /\ resp = NoResp

NextComplaintApi ==
    \/ \E user \in ApiActors : resubmit(user)
    \/ \E user \in ApiActors : cadet_review(user)
    \/ \E user \in ApiActors : officer_review(user)
    \/ \E user \in GenericEndpointCallers : partial_update(user)
    \/ \E user \in GenericEndpointCallers : destroy(user)

SpecComplaintApi == InitComplaintApi /\ [][NextComplaintApi]_vars

(***************************************************************************)
(* Claims about the complaint workflow.                                    *)
(***************************************************************************)
ComplaintFrame ==
    /\ complaint'.current_status = complaint.current_status
    /\ complaint'.invalid_attempts = complaint.invalid_attempts
    /\ complaint'.cadet_message = complaint.cadet_message
    /\ complaint'.officer_message = complaint.officer_message
    /\ complaint'.case = complaint.case

InvalidIffThreeAttempts ==
    complaint.current_status = "invalid" <=> complaint.invalid_attempts >= 3

\* C4: invalid_attempts never decreases, the status is invalid exactly when
\* invalid_attempts >= 3, the third resubmit of a cadet_rejected complaint yields
\* invalid, and every resubmit attempted on an invalid complaint fails and changes nothing.
C4_InvalidAttempts ==
    [][/\ InvalidIffThreeAttempts /\ InvalidIffThreeAttempts'
       /\ complaint'.invalid_attempts >= complaint.invalid_attempts
       /\ (resp'.op = "resubmit" /\ resp'.code = "ok" /\ complaint.invalid_attempts = 2)
             => complaint'.current_status = "invalid"
       /\ (resp'.op = "resubmit" /\ complaint.current_status = "invalid")
             => (resp'.code # "ok" /\ complaint' = complaint)]_vars

C4_Witness ==
    /\ complaint.current_status = "invalid"
    /\ complaint.invalid_attempts = 3
    /\ resp.op = "resubmit"
    /\ resp.user = "citizen"
    /\ resp.code = "invalid_state"

\* C5: in every reachable state of the complaint its case reference is non-null
\* exactly when its status is officer_approved.
C5_CaseIffOfficerApproved ==
    complaint # NoComplaint
       => (complaint.case # NullId <=> complaint.current_status = "officer_approved")

\* C6: over any sequence of complaint operations at most one Case is ever created for
\* the complaint; an officer approval applied to a complaint that already has a case
\* reference creates no Case and keeps the reference.
C6_AtMostOneCase ==
    [][/\ Len(cases') <= 1
       /\ (/\ resp'.op = "officer_review" /\ resp'.code = "ok"
           /\ resp'.decision = "approve" /\ complaint.case # NullId)
             => (cases' = cases /\ complaint'.case = complaint.case)]_vars

\* an approval has been applied to a complaint whose Case existed already: the Case
\* still carries the crime level the complaint had when the Case was created
C6_Witness ==
    /\ complaint # NoComplaint
    /\ Len(cases) = 1
    /\ complaint.case = 1
    /\ complaint.current_status = "officer_approved"
    /\ resp.op = "officer_review"
    /\ resp.code = "ok"
    /\ resp.decision = "approve"
    /\ complaint.crime_level # cases[1].crime_level

\* C7: an officer approval during which the creation of the Case, of a participant
\* or the final save fails leaves the complaint in cadet_approved without a case
\* reference, and no Case or participant of that attempt persists.
C7_ApprovalAtomic ==
    [][(resp'.op = "officer_review" /\ resp'.code = "server_error")
          => /\ complaint' = complaint
             /\ complaint'.current_status = "cadet_approved"
             /\ complaint'.case = NullId
             /\ cases' = cases
             /\ participants' = participants]_vars

C7_Witness ==
    /\ resp.op = "officer_review"
    /\ resp.code = "server_error"
    /\ complaint.current_status = "cadet_approved"
    /\ cases = <<>>
    /\ participants = {}

\* C9: a cadet review is applied only from submitted or officer_rejected, an officer
\* review only from cadet_approved, a resubmit only from cadet_rejected; attempted
\* from any other state (an invalid complaint included) the operation changes
\* nothing, and the actor entitled to it is answered invalid_state.
C9_InvalidState ==
    [][/\ (resp'.op = "cadet_review" /\ resp'.code = "ok")
             => complaint.current_status \in {"submitted", "officer_rejected"}
       /\ (resp'.op = "officer_review" /\ resp'.code = "ok")
             => complaint.current_status = "cadet_approved"
       /\ (resp'.op = "resubmit" /\ resp'.code = "ok")
             => complaint.current_status = "cadet_rejected"
       /\ (resp'.op = "cadet_review"
             /\ complaint.current_status \notin {"submitted", "officer_rejected"})
             => /\ ComplaintFrame
                /\ Role(resp'.user) = "Cadet" => resp'.code = "invalid_state"
       /\ (resp'.op = "officer_review" /\ complaint.current_status # "cadet_approved")
             => /\ ComplaintFrame
                /\ Role(resp'.user) = "Officer" => resp'.code = "invalid_state"
       /\ (resp'.op = "resubmit" /\ complaint.current_status # "cadet_rejected")
             => /\ ComplaintFrame
                /\ resp'.user \in {"citizen", "citizen2"} => resp'.code = "invalid_state"
      ]_vars

C9_Witness ==
    /\ complaint.current_status = "invalid"
    /\ resp.op = "cadet_review"
    /\ resp.user = "cadet"
    /\ resp.code = "invalid_state"

(***************************************************************************)
(* Suspect, interrogation and trial chain: investigations/views.py and     *)
(* cases/views.py, TrialVerdictView.                                       *)
(* The *_at stamps of the suspect and of the interrogation are not kept;   *)
(* the trial's verdict_at is.                                              *)
(***************************************************************************)
NoScore == 0
None == "None"
\* DateTimeField(null=True) that holds no value
NullTime == -1

user_can_propose_case_suspect(user) ==
    has_perm_or_role(user, {"investigations.propose_case_suspect"}, {"Detective"})

user_can_review_case_suspect(user) ==
    has_perm_or_role(user, {"investigations.review_case_suspect"},
                     {"Sergeant", "Detective", "Captain", "Chief"})

user_can_submit_detective_interrogation(user) ==
    has_perm_or_role(user, {"investigations.submit_detective_interrogation"},
                     {"Detective"})

user_can_submit_sergeant_interrogation(user) ==
    has_perm_or_role(user, {"investigations.submit_sergeant_interrogation"},
                     {"Sergeant"})

user_can_submit_captain_interrogation_decision(user) ==
    has_perm_or_role(user, {"investigations.submit_captain_interrogation_decision"},
                     {"Captain", "Chief"})

user_can_review_critical_interrogation(user) ==
    has_perm_or_role(user, {"investigations.review_critical_interrogation"},
                     {"Chief", "Admin"})

\* investigations/permissions.py
user_can_access_case(user, c) ==
    \/ has_perm(user, "cases.view_all_cases")
    \/ c.created_by = user
    \/ c.assigned_to = user
    \/ <<c.id, user>> \in participants

user_is_assigned_detective(user, c) == c.assigned_to = user

_require_assigned_detective(user, c) ==
    user_is_assigned_detective(user, c) \/ user_can_view_all_cases(user)

\* the case lookup that opens a handler: holders of the capability (or of the
\* view-all capability) reach any case, the others only a case they can access
case_lookup(user, capable) ==
    IF capable \/ user_can_view_all_cases(user) THEN "ok"
    ELSE IF user_can_access_case(user, case) THEN "ok"
    ELSE "not_found"

NewInterrogation ==
    [id |-> 1,
     detective_score |-> NoScore, detective_submitted_by |-> Nobody,
     sergeant_score |-> NoScore, sergeant_submitted_by |-> Nobody,
     captain_final_decision |-> None, captain_reasoning |-> <<>>,
     captain_decided_by |-> Nobody,
     chief_decision |-> None, chief_message |-> <<>>, chief_reviewed_by |-> Nobody]

\* Mutant: a new record replaces the one the suspect has
_get_or_create_interrogation_create(row) == NewInterrogation

\* Interrogation.objects.get_or_create(suspect=suspect)
_get_or_create_interrogation(row) == IF row = NoInterrogation THEN NewInterrogation ELSE row

SuspectReviewCallers == {"sergeant", "judge"}
DetectiveScoreCallers == {"detective", "sergeant"}
SergeantScoreCallers == {"sergeant", "detective"}
CaptainDecisionCallers == {"captain", "chief", "detective"}
ChiefReviewCallers == {"chief", "captain"}
TrialVerdictCallers == {"judge", "captain"}
ScoreInputs == {0, 1, 10, 11}
BooleanInputs == {"ABSENT", "True", "False"}
ReasoningInputs == {Absent, <<"x">>}
VerdictInputs == {"ABSENT", "guilty", "innocent"}
PunishmentInputs == {Absent, <<"sp">>, <<"x">>}

\* Mutant: the message is tested as sent, without trimming
CaseSuspectReviewSerializer_validate_untrimmed(decision, message) ==
    ~(decision = "reject" /\ get_or_empty(message) = <<>>)

\* CaseSuspectReviewSerializer.validate, and the validate of the two tip serializers
CaseSuspectReviewSerializer_validate(decision, message) ==
    ~(decision = "reject" /\ strip(get_or_empty(message)) = <<>>)

\* Mutant: a suspect that has been approved can be reviewed again
SuspectReviewAllowedFrom_approved == {"proposed", "approved"}

\* CaseSuspectReviewView.post: "if suspect.status != CaseSuspectStatus.PROPOSED"
SuspectReviewAllowedFrom == {"proposed"}

\* Mutant: the review leaves reviewed_at as it was
CaseSuspectReviewView_save_unstamped(s, user, decision, message, t) ==
    [s EXCEPT !.status = IF decision = "approve" THEN "approved" ELSE "rejected",
              !.sergeant_message = strip(get_or_empty(message)),
              !.reviewed_by = user]

\* CaseSuspectReviewView.post: the four fields that suspect.save(update_fields=...) writes
CaseSuspectReviewView_save(s, user, decision, message, t) ==
    [s EXCEPT !.status = IF decision = "approve" THEN "approved" ELSE "rejected",
              !.sergeant_message = strip(get_or_empty(message)),
              !.reviewed_by = user,
              !.reviewed_at = t]

CaseSuspectReviewView_post(user) ==
    /\ suspect # NoSuspect
    /\ UNCHANGED <<complaintVars, tipVars, sceneVars, wantedVars, requests>>
    /\ LET lookup == case_lookup(user, user_can_review_case_suspect(user)) IN
       IF lookup # "ok"
       THEN /\ resp' = Refused("suspect_review", user, lookup)
            /\ UNCHANGED suspectVars
       ELSE IF ~user_can_review_case_suspect(user)
       THEN /\ resp' = Refused("suspect_review", user, "forbidden")
            /\ UNCHANGED suspectVars
       ELSE \E decision \in Decisions, message \in Payloads :
       IF suspect.status \notin SuspectReviewAllowedFrom
       THEN /\ resp' = Response("suspect_review", user, "already_reviewed", decision, message)
            /\ UNCHANGED suspectVars
       ELSE IF ~CaseSuspectReviewSerializer_validate(decision, message)
       THEN /\ resp' = Response("suspect_review", user, "validation_error", decision, message)
            /\ UNCHANGED suspectVars
       ELSE /\ suspect' = CaseSuspectReviewView_save(suspect, user, decision, message, now)
            /\ notifications' =
                 IF suspect.proposed_by # Nobody
                 THEN Append(notifications, [user |-> suspect.proposed_by, kind |-> decision])
                 ELSE notifications
            /\ resp' = Response("suspect_review", user, "ok", decision, message)
            /\ UNCHANGED <<case, interrogation, trial, now>>

\* Mutant: the score has no upper limit
ScoreValid_no_max(score) == 1 <= score

\* IntegerField(min_value=1, max_value=10)
ScoreValid(score) == 1 <= score /\ score <= 10

SuspectInterrogationDetectiveView_post(user) ==
    /\ suspect # NoSuspect
    /\ UNCHANGED <<complaintVars, tipVars, sceneVars, wantedVars, requests>>
    /\ UNCHANGED <<case, suspect, trial, notifications, now>>
    /\ LET refusal ==
             IF ~user_can_access_case(user, case) THEN "not_found"
             ELSE IF ~_require_assigned_detective(user, case) THEN "forbidden"
             ELSE IF ~user_can_submit_detective_interrogation(user) THEN "forbidden"
             ELSE IF suspect.status # "approved" THEN "invalid_state"
             ELSE "ok"
       IN
       IF refusal # "ok"
       THEN /\ resp' = Refused("detective_score", user, refusal)
            /\ UNCHANGED interrogation
       ELSE \E detective_score \in ScoreInputs :
       IF ~ScoreValid(detective_score)
       THEN /\ resp' = Refused("detective_score", user, "validation_error")
            /\ UNCHANGED interrogation
       ELSE /\ interrogation' = [_get_or_create_interrogation(interrogation) EXCEPT
                                    !.detective_score = detective_score,
                                    !.detective_submitted_by = user]
            /\ resp' = Refused("detective_score", user, "ok")

SuspectInterrogationSergeantView_post(user) ==
    /\ suspect # NoSuspect
    /\ UNCHANGED <<complaintVars, tipVars, sceneVars, wantedVars, requests>>
    /\ UNCHANGED <<case, suspect, trial, notifications, now>>
    /\ LET refusal ==
             IF case_lookup(user, user_can_submit_sergeant_interrogation(user)) # "ok"
             THEN "not_found"
             ELSE IF ~user_can_submit_sergeant_interrogation(user) THEN "forbidden"
             ELSE IF suspect.status # "approved" THEN "invalid_state"
             ELSE "ok"
       IN
       IF refusal # "ok"
       THEN /\ resp' = Refused("sergeant_score", user, refusal)
            /\ UNCHANGED interrogation
       ELSE \E sergeant_score \in ScoreInputs :
       IF ~ScoreValid(sergeant_score)
       THEN /\ resp' = Refused("sergeant_score", user, "validation_error")
            /\ UNCHANGED interrogation
       ELSE /\ interrogation' = [_get_or_create_interrogation(interrogation) EXCEPT
                                    !.sergeant_score = sergeant_score,
                                    !.sergeant_submitted_by = user]
            /\ resp' = Refused("sergeant_score", user, "ok")

SuspectInterrogationCaptainDecisionView_post(user) ==
    /\ suspect # NoSuspect
    /\ UNCHANGED <<complaintVars, tipVars, sceneVars, wantedVars, requests>>
    /\ UNCHANGED <<case, suspect, trial, notifications, now>>
    /\ LET refusal ==
             IF case_lookup(user, user_can_submit_captain_interrogation_decision(user)) # "ok"
             THEN "not_found"
             ELSE IF ~user_can_submit_captain_interrogation_decision(user) THEN "forbidden"
             ELSE IF suspect.status # "approved" THEN "invalid_state"
             ELSE "ok"
       IN
       IF refusal # "ok"
       THEN /\ resp' = Refused("captain_decision", user, refusal)
            /\ UNCHANGED interrogation
       ELSE \E captain_final_decision \in BooleanInputs,
               captain_reasoning \in ReasoningInputs :
       IF captain_final_decision = "ABSENT"
       THEN /\ resp' = Refused("captain_decision", user, "validation_error")
            /\ UNCHANGED interrogation
       ELSE LET obj == _get_or_create_interrogation(interrogation) IN
            IF obj.detective_score = NoScore \/ obj.sergeant_score = NoScore
            THEN /\ interrogation' = obj
                 /\ resp' = Refused("captain_decision", user, "missing_scores")
            ELSE /\ interrogation' = [obj EXCEPT
                        !.captain_final_decision = captain_final_decision,
                        !.captain_reasoning = strip(get_or_empty(captain_reasoning)),
                        !.captain_decided_by = user]
                 /\ resp' = Refused("captain_decision", user, "ok")

\* ChiefReviewSubmitSerializer: BooleanField() is required, then validate()
ChiefReviewSubmitSerializer_validate(chief_decision, chief_message) ==
    /\ chief_decision # "ABSENT"
    /\ ~(chief_decision = "False" /\ strip(get_or_empty(chief_message)) = <<>>)

SuspectInterrogationChiefReviewView_post(user) ==
    /\ suspect # NoSuspect
    /\ UNCHANGED <<complaintVars, tipVars, sceneVars, wantedVars, requests>>
    /\ UNCHANGED <<case, suspect, trial, notifications, now>>
    /\ LET lookup == case_lookup(user, user_can_review_critical_interrogation(user)) IN
       IF lookup # "ok"
       THEN /\ resp' = Refused("chief_review", user, lookup)
            /\ UNCHANGED interrogation
       ELSE IF ~user_can_review_critical_interrogation(user)
       THEN /\ resp' = Refused("chief_review", user, "forbidden")
            /\ UNCHANGED interrogation
       ELSE \E chief_decision \in BooleanInputs, chief_message \in Payloads :
       IF case.crime_level # "critical"
       THEN /\ resp' = Response("chief_review", user, "not_critical",
                                chief_decision, chief_message)
            /\ UNCHANGED interrogation
       ELSE IF suspect.status # "approved"
       THEN /\ resp' = Response("chief_review", user, "invalid_state",
                                chief_decision, chief_message)
            /\ UNCHANGED interrogation
       ELSE LET obj == _get_or_create_interrogation(interrogation) IN
            IF obj.captain_final_decision = None
            THEN /\ interrogation' = obj
                 /\ resp' = Response("chief_review", user, "missing_captain_decision",
                                     chief_decision, chief_message)
            ELSE IF ~ChiefReviewSubmitSerializer_validate(chief_decision, chief_message)
            THEN /\ interrogation' = obj
                 /\ resp' = Response("chief_review", user, "validation_error",
                                     chief_decision, chief_message)
            ELSE /\ interrogation' = [obj EXCEPT
                        !.chief_decision = chief_decision,
                        !.chief_message = strip(get_or_empty(chief_message)),
                        !.chief_reviewed_by = user]
                 /\ resp' = Response("chief_review", user, "ok",
                                     chief_decision, chief_message)

\* Mutant: an innocent verdict keeps the punishment of the payload
TrialVerdictWriteSerializer_validate_keeps_punishment(verdict, punishment_title, punishment_description) ==
    LET title == strip(get_or_empty(punishment_title))
        desc == strip(get_or_empty(punishment_description))
    IN  IF verdict = "ABSENT"
        THEN [valid |-> FALSE, verdict |-> verdict,
              punishment_title |-> <<>>, punishment_description |-> <<>>]
        ELSE IF verdict = "guilty"
        THEN [valid |-> title # <<>> /\ desc # <<>>, verdict |-> verdict,
              punishment_title |-> title, punishment_description |-> desc]
        ELSE [valid |-> TRUE, verdict |-> verdict,
              punishment_title |-> title, punishment_description |-> desc]

\* TrialVerdictWriteSerializer: the validated payload, or valid = FALSE
TrialVerdictWriteSerializer_validate(verdict, punishment_title, punishment_description) ==
    LET title == strip(get_or_empty(punishment_title))
        desc == strip(get_or_empty(punishment_description))
    IN  IF verdict = "ABSENT"
        THEN [valid |-> FALSE, verdict |-> verdict,
              punishment_title |-> <<>>, punishment_description |-> <<>>]
        ELSE IF verdict = "guilty"
        THEN [valid |-> title # <<>> /\ desc # <<>>, verdict |-> verdict,
              punishment_title |-> title, punishment_description |-> desc]
        ELSE [valid |-> TRUE, verdict |-> verdict,
              punishment_title |-> <<>>, punishment_description |-> <<>>]

\* Mutant: the chief's approval is tested before the captain's
TrialVerdictGate_chief_first(c, row) ==
    IF row = NoInterrogation THEN "missing_interrogation"
    ELSE IF c.crime_level = "critical" /\ row.chief_decision # "True"
    THEN "chief_approval_required"
    ELSE IF row.captain_final_decision # "True" THEN "captain_approval_required"
    ELSE "ok"

\* Mutant: the captain's approval is not tested
TrialVerdictGate_without_captain(c, row) ==
    IF row = NoInterrogation THEN "missing_interrogation"
    ELSE IF c.crime_level = "critical" /\ row.chief_decision # "True"
    THEN "chief_approval_required"
    ELSE "ok"

\* TrialVerdictView.post: the guards, in the order the code tests them
TrialVerdictGate(c, row) ==
    IF row = NoInterrogation THEN "missing_interrogation"
    ELSE IF row.captain_final_decision # "True" THEN "captain_approval_required"
    ELSE IF c.crime_level = "critical" /\ row.chief_decision # "True"
    THEN "chief_approval_required"
    ELSE "ok"

\* Trial.objects.get_or_create(case, suspect, defaults={"created_by": user})
Trial_get_or_create(row, user) ==
    IF row # NoTrial THEN row
    ELSE [id |-> 1, created_by |-> user, verdict |-> None,
          punishment_title |-> <<>>, punishment_description |-> <<>>,
          verdict_by |-> Nobody, verdict_at |-> 0]

TrialVerdictView_post(user) ==
    /\ suspect # NoSuspect
    /\ UNCHANGED <<complaintVars, tipVars, sceneVars, wantedVars, requests>>
    /\ UNCHANGED <<case, suspect, interrogation, notifications, now>>
    /\ IF ~user_can_judge_verdict_trial(user)
       THEN /\ resp' = Refused("trial_verdict", user, "permission_denied")
            /\ UNCHANGED trial
       ELSE IF TrialVerdictGate(case, interrogation) # "ok"
       THEN /\ resp' = Refused("trial_verdict", user, TrialVerdictGate(case, interrogation))
            /\ UNCHANGED trial
       ELSE \E verdict \in VerdictInputs, punishment_title \in PunishmentInputs,
               punishment_description \in PunishmentInputs :
            LET validated_data == TrialVerdictWriteSerializer_validate(
                                      verdict, punishment_title, punishment_description)
            IN  IF ~validated_data.valid
                THEN /\ resp' = Refused("trial_verdict", user, "validation_error")
                     /\ UNCHANGED trial
                ELSE /\ trial' = [Trial_get_or_create(trial, user) EXCEPT
                            !.verdict = validated_data.verdict,
                            !.punishment_title = validated_data.punishment_title,
                            !.punishment_description = validated_data.punishment_description,
                            !.verdict_by = user,
                            !.verdict_at = now]
                     /\ resp' = [Refused("trial_verdict", user, "ok") EXCEPT
                                   !.decision = validated_data.verdict]

\* time passes between two requests
Tick ==
    /\ suspect # NoSuspect
    /\ now < MaxTime
    /\ now' = now + 1
    /\ resp' = NoResp
    /\ UNCHANGED <<complaintVars, tipVars, sceneVars, wantedVars, requests>>
    /\ UNCHANGED <<case, suspect, interrogation, trial, notifications>>

CrimeLevels == {"level_1", "critical"}

\* CaseSuspectProposeView.post: the suspect the detective of the case has proposed
NewSuspect ==
    [id |-> 1, status |-> "proposed", sergeant_message |-> <<>>,
     reviewed_by |-> Nobody, reviewed_at |-> NullTime, proposed_by |-> "detective"]

\* the suspect once the sergeant has approved it (CaseSuspectReviewView.post)
ApprovedSuspect ==
    [NewSuspect EXCEPT !.status = "approved", !.reviewed_by = "sergeant",
                       !.reviewed_at = 0]

InvestigatedCase(crime_level, assigned_to) ==
    [id |-> 1, crime_level |-> crime_level, status |-> "active",
     created_by |-> "citizen", assigned_to |-> assigned_to]

InitTrial ==
    /\ complaint = NoComplaint
    /\ complainants = <<>>
    /\ cases = <<>>
    /\ participants = {}
    /\ \E crime_level \in CrimeLevels : case = InvestigatedCase(crime_level, "detective")
    /\ suspect = ApprovedSuspect
    /\ interrogation = NoInterrogation
    /\ trial = NoTrial
    /\ notifications = <<[user |-> "detective", kind |-> "approve"]>>
    /\ now = 0
    /\ NoTipWorld
    /\ NoSceneWorld
    /\ NoWantedWorld
    /\ requests = <<>>
    /\ resp = NoResp

NextTrial ==
    \/ \E user \in DetectiveScoreCallers : SuspectInterrogationDetectiveView_post(user)
    \/ \E user \in SergeantScoreCallers : SuspectInterrogationSergeantView_post(user)
    \/ \E user \in CaptainDecisionCallers : SuspectInterrogationCaptainDecisionView_post(user)
    \/ \E user \in ChiefReviewCallers : SuspectInterrogationChiefReviewView_post(user)
    \/ \E user \in TrialVerdictCallers : TrialVerdictView_post(user)
    \/ Tick

SpecTrial == InitTrial /\ [][NextTrial]_vars

(***************************************************************************)
(* Claims about the trial verdict.                                         *)
(***************************************************************************)
CaptainApproved ==
    interrogation # NoInterrogation /\ interrogation.captain_final_decision = "True"

ChiefApproved ==
    interrogation # NoInterrogation /\ interrogation.chief_decision = "True"

VerdictByJudge == resp'.op = "trial_verdict" /\ Role(resp'.user) = "Judge"

GateOpen == CaptainApproved /\ (case.crime_level = "critical" => ChiefApproved)

\* C1: once a verdict is recorded for the (case, suspect) pair, every further verdict
\* submission fails with trial_verdict_already_submitted and leaves the stored verdict,
\* punishment title and description, verdict_by and verdict_at unchanged.
C1_VerdictSingleShot ==
    [][(VerdictByJudge /\ trial # NoTrial)
          => (resp'.code = "trial_verdict_already_submitted" /\ trial' = trial)]_vars

\* C2 as stated: in a critical case a verdict submission made while chief_decision is
\* not true fails with chief_approval_required whatever the captain's decision is.
C2_ChiefRequiredWhateverCaptain ==
    [][(VerdictByJudge /\ case.crime_level = "critical" /\ ~ChiefApproved)
          => resp'.code = "chief_approval_required"]_vars

\* C2: in a critical case a judge's verdict submission made while chief_decision is not
\* true always fails and writes no Trial: with chief_approval_required when the
\* captain's decision is true, with captain_approval_required when it is unset or
\* false, with missing_interrogation when the suspect has no Interrogation; in a
\* non-critical case a submission made while captain_final_decision is true is never
\* refused for a missing approval, and it succeeds with no chief decision recorded.
C2_ChiefGate ==
    [][VerdictByJudge =>
         /\ (case.crime_level = "critical" /\ ~ChiefApproved)
               => /\ trial' = trial
                  /\ resp'.code =
                       IF interrogation = NoInterrogation THEN "missing_interrogation"
                       ELSE IF ~CaptainApproved THEN "captain_approval_required"
                       ELSE "chief_approval_required"
         /\ (case.crime_level # "critical" /\ CaptainApproved)
               => /\ resp'.code \in {"ok", "validation_error"}
                  /\ interrogation.chief_decision = None
                  /\ resp'.code = "ok"
                       => (trial' # NoTrial /\ trial'.verdict = resp'.decision)]_vars

C2_Witness ==
    /\ resp.op = "trial_verdict"
    /\ resp.user = "judge"
    /\ resp.code = "captain_approval_required"
    /\ case.crime_level = "critical"
    /\ interrogation # NoInterrogation
    /\ interrogation.captain_final_decision = "False"
    /\ trial = NoTrial

\* C3 as stated: a Trial is written only while the captain's decision is true and, in a
\* critical case, the chief's too; any other submission fails with
\* captain_approval_required or chief_approval_required and writes no Trial.
C3_OnlyApprovalErrors ==
    [][/\ trial' # trial => GateOpen
       /\ (VerdictByJudge /\ ~GateOpen)
             => /\ trial' = trial
                /\ resp'.code \in {"captain_approval_required",
                                   "chief_approval_required"}]_vars

\* C3: a Trial is created or written only by a verdict submission made while the
\* captain's decision is true and, in a critical case, the chief's decision is true;
\* any other submission writes no Trial, and a judge's is answered
\* missing_interrogation when the suspect has no Interrogation, otherwise
\* captain_approval_required or chief_approval_required.
C3_TrialOnlyWhenApproved ==
    [][/\ trial' # trial
             => (resp'.op = "trial_verdict" /\ resp'.code = "ok" /\ GateOpen)
       /\ (resp'.op = "trial_verdict" /\ ~GateOpen)
             => (trial' = trial /\ resp'.code # "ok")
       /\ (VerdictByJudge /\ ~GateOpen)
             => /\ resp'.code \in {"missing_interrogation", "captain_approval_required",
                                   "chief_approval_required"}
                /\ resp'.code = "missing_interrogation"
                     <=> interrogation = NoInterrogation]_vars

C3_Witness ==
    /\ resp.op = "trial_verdict"
    /\ resp.code = "ok"
    /\ trial # NoTrial
    /\ trial.verdict_by = "judge"
    /\ case.crime_level = "critical"
    /\ interrogation.captain_final_decision = "True"
    /\ interrogation.chief_decision = "True"

(***************************************************************************)
(* Officer reviews of one complaint handled concurrently.  A request reads *)
(* the row with get_object() into its own copy, tests the state and the    *)
(* payload on that copy, then runs the transaction.atomic() block, which   *)
(* commits as one step; the database runs at READ COMMITTED and the        *)
(* handler takes no row lock, so other requests may commit in between.     *)
(***************************************************************************)
RequestUser(r) == IF r % 2 = 1 THEN "officer" ELSE "officer2"

RaceMessageInputs == {Absent, <<"x">>}

NewRequest ==
    [pc |-> "read", decision |-> "none", message |-> Absent,
     local |-> NoComplaint, code |-> "none"]

\* self.get_object(): the permission checks, then the SELECT into the request's copy
officer_review_read(r) ==
    /\ r \in DOMAIN requests
    /\ requests[r].pc = "read"
    /\ LET access == ComplaintAccess("officer_review", RequestUser(r)) IN
       IF access # "ok"
       THEN requests' = [requests EXCEPT ![r].pc = "done", ![r].code = access]
       ELSE \E decision \in Decisions, message \in RaceMessageInputs :
               requests' = [requests EXCEPT ![r] =
                              [pc |-> "check", decision |-> decision,
                               message |-> message, local |-> complaint,
                               code |-> "none"]]
    /\ UNCHANGED <<complaintVars, suspectVars, tipVars, sceneVars, wantedVars, resp>>

\* the state checks and the serializer, all on the request's copy
officer_review_check(r) ==
    /\ r \in DOMAIN requests
    /\ requests[r].pc = "check"
    /\ LET req == requests[r]
           code == IF req.local.current_status \notin OfficerReviewAllowedFrom
                   THEN "invalid_state"
                   ELSE IF req.local.current_status = "invalid" THEN "complaint_invalid"
                   ELSE IF ~ReviewSerializer_validate(req.decision, req.message)
                   THEN "validation_error"
                   ELSE "ok"
       IN  requests' = IF code = "ok"
                       THEN [requests EXCEPT ![r].pc = "write"]
                       ELSE [requests EXCEPT ![r].pc = "done", ![r].code = code]
    /\ UNCHANGED <<complaintVars, suspectVars, tipVars, sceneVars, wantedVars, resp>>

\* the transaction.atomic() block: complaint.save() writes the request's whole copy
officer_review_write(r) ==
    /\ r \in DOMAIN requests
    /\ requests[r].pc = "write"
    /\ LET req == requests[r] IN
       IF req.decision = "reject"
       THEN /\ complaint' = officer_review_reject(req.local, RequestUser(r), req.message)
            /\ requests' = [requests EXCEPT ![r].pc = "done", ![r].code = "ok"]
            /\ UNCHANGED <<cases, participants>>
       ELSE \E fault \in Faults :
            \E some_users \in SUBSET ApprovedComplainants(complainants) :
               /\ fault = "participant_create"
                    => some_users # ApprovedComplainants(complainants)
               /\ fault # "participant_create" => some_users = {}
               /\ LET before == <<complaint, cases, participants>>
                      written == officer_review_written(req.local, complainants, cases,
                                     participants, RequestUser(r), fault, some_users)
                      after == transaction_atomic(before, written, fault # "none")
                  IN  /\ complaint' = after[1]
                      /\ cases' = after[2]
                      /\ participants' = after[3]
               /\ requests' = [requests EXCEPT
                                 ![r].pc = "done",
                                 ![r].code = IF fault = "none" THEN "ok" ELSE "server_error"]
    /\ UNCHANGED <<complainants, suspectVars, tipVars, sceneVars, wantedVars, resp>>

InitOfficerRace ==
    /\ complaint = cadet_review_apply(NewComplaint("citizen"), "cadet", "approve", Absent)
    /\ complainants = NewComplainants("citizen", {"citizen2"})
    /\ cases = <<>>
    /\ participants = {}
    /\ NoInvestigation
    /\ NoTipWorld
    /\ NoSceneWorld
    /\ NoWantedWorld
    /\ requests = [r \in 1..NumRequests |-> NewRequest]
    /\ resp = NoResp

NextOfficerRace ==
    \/ \E r \in 1..NumRequests : officer_review_read(r)
    \/ \E r \in 1..NumRequests : officer_review_check(r)
    \/ \E r \in 1..NumRequests : officer_review_write(r)

SpecOfficerRace == InitOfficerRace /\ [][NextOfficerRace]_vars

\* C8: two officer-approve requests for the same cadet_approved complaint, processed
\* concurrently, behave in every interleaving as if serialized: once they are done
\* exactly one has been applied, the others were refused with invalid_state, and at
\* most one Case exists.
C8_ApprovalsSerialized ==
    (/\ requests # <<>>
     /\ \A r \in DOMAIN requests :
           /\ requests[r].pc = "done"
           /\ requests[r].decision = "approve"
           /\ requests[r].code \in {"ok", "invalid_state"})
    => /\ Cardinality({r \in DOMAIN requests : requests[r].code = "ok"}) = 1
       /\ Len(cases) <= 1

(***************************************************************************)
(* Tips and rewards: investigations/views.py.  The tip refers to the case, *)
(* to a suspect of the case, or to both; the handlers read the case row    *)
(* and only test whether the suspect reference is set.                     *)
(***************************************************************************)
BaseRewardAmount == 20000000

user_can_officer_review_tip(user) ==
    has_perm_or_role(user, {"investigations.officer_review_tip"},
                     {"Officer", "Captain", "Chief"})

user_can_detective_review_tip(user) ==
    has_perm_or_role(user, {"investigations.detective_review_tip"}, {"Detective"})

\* CRIME_LEVEL_DEGREE.get(crime_level, 1)
CRIME_LEVEL_DEGREE(crime_level) ==
    CASE crime_level = "level_3"  -> 1
      [] crime_level = "level_2"  -> 2
      [] crime_level = "level_1"  -> 3
      [] crime_level = "critical" -> 4
      [] OTHER -> 1

TipOfficerDecisions == {"reject", "forward"}
TipOfficerReviewCallers == {"officer", "captain", "detective"}
TipDetectiveReviewCallers == {"detective", "detective2", "officer"}
TipReferences == {<<1, NullId>>, <<NullId, 1>>, <<1, 1>>}

\* TipCreateView.post: the row of a new tip
NewTip(case_id, suspect_id) ==
    [id |-> 1, user |-> "citizen", case |-> case_id, suspect |-> suspect_id,
     status |-> "submitted",
     officer_message |-> <<>>, officer_reviewed_by |-> Nobody,
     detective_message |-> <<>>, detective_reviewed_by |-> Nobody]

\* Mutant: the officer may review a forwarded tip again
TipOfficerReviewAllowedFrom_forwarded == {"submitted", "forwarded_to_detective"}

\* TipOfficerReviewView.post: tip.status != TipStatus.SUBMITTED is refused
TipOfficerReviewAllowedFrom == {"submitted"}

\* Mutant: the detective may review an approved tip again
TipDetectiveReviewAllowedFrom_approved == {"forwarded_to_detective", "approved"}

\* TipDetectiveReviewView.post: tip.status != FORWARDED_TO_DETECTIVE is refused
TipDetectiveReviewAllowedFrom == {"forwarded_to_detective"}

TipOfficerReviewView_post(user) ==
    /\ tip # NoTip
    /\ UNCHANGED <<complaintVars, suspectVars, sceneVars, wantedVars, requests, rewards>>
    /\ IF ~user_can_officer_review_tip(user)
       THEN /\ resp' = Refused("tip_officer_review", user, "forbidden")
            /\ UNCHANGED tip
       ELSE \E decision \in TipOfficerDecisions, message \in Payloads :
       IF ~CaseSuspectReviewSerializer_validate(decision, message)
       THEN /\ resp' = Response("tip_officer_review", user, "validation_error",
                                decision, message)
            /\ UNCHANGED tip
       ELSE IF tip.status \notin TipOfficerReviewAllowedFrom
       THEN /\ resp' = Response("tip_officer_review", user, "invalid_state",
                                decision, message)
            /\ UNCHANGED tip
       ELSE /\ tip' = [tip EXCEPT
                         !.officer_message = strip(get_or_empty(message)),
                         !.officer_reviewed_by = user,
                         !.status = IF decision = "reject" THEN "officer_rejected"
                                    ELSE "forwarded_to_detective"]
            /\ resp' = Response("tip_officer_review", user, "ok", decision, message)

\* hasattr(tip, "reward"): the tip has a Reward row
hasattr_reward(rows, tip_id) == \E i \in DOMAIN rows : rows[i].tip = tip_id

\* uuid.uuid4().hex[:16]
RewardCodes == {"c1", "c2"}

\* Mutant: Reward.tip is a plain foreign key, only reward_code is unique
Reward_unique_code_only(rows, tip_id, reward_code) ==
    \A i \in DOMAIN rows : rows[i].reward_code # reward_code

\* Reward: tip is a OneToOneField and reward_code is unique
Reward_unique(rows, tip_id, reward_code) ==
    \A i \in DOMAIN rows : rows[i].tip # tip_id /\ rows[i].reward_code # reward_code

\* Reward.objects.create(tip=tip, reward_code=..., reward_amount=amount)
Reward_create(rows, tip_id, reward_code, amount) ==
    Append(rows, [id |-> Len(rows) + 1, tip |-> tip_id,
                  reward_code |-> reward_code, reward_amount |-> amount])

\* the amount of the reward of a tip that references no suspect
reward_amount(t, c) ==
    IF t.case # NullId THEN CRIME_LEVEL_DEGREE(c.crime_level) * BaseRewardAmount
    ELSE BaseRewardAmount

\* Mutant: the assigned investigator is not compared with the actor
tip_assigned_elsewhere_unchecked(user) == FALSE

\* the "only assigned detective" test of TipDetectiveReviewView.post
tip_assigned_elsewhere(user) ==
    /\ tip.case # NullId
    /\ case.assigned_to # Nobody
    /\ case.assigned_to # user
    /\ ~user_can_view_all_cases(user)

TipDetectiveReviewView_post(user) ==
    /\ tip # NoTip
    /\ UNCHANGED <<complaintVars, suspectVars, sceneVars, wantedVars, requests>>
    /\ IF ~user_can_detective_review_tip(user)
       THEN /\ resp' = Refused("tip_detective_review", user, "forbidden")
            /\ UNCHANGED <<tip, rewards>>
       ELSE \E decision \in Decisions, message \in Payloads :
       IF tip.status \notin TipDetectiveReviewAllowedFrom
       THEN /\ resp' = Response("tip_detective_review", user, "invalid_state",
                                decision, message)
            /\ UNCHANGED <<tip, rewards>>
       ELSE IF tip_assigned_elsewhere(user)
       THEN /\ resp' = Response("tip_detective_review", user, "forbidden",
                                decision, message)
            /\ UNCHANGED <<tip, rewards>>
       ELSE IF ~CaseSuspectReviewSerializer_validate(decision, message)
       THEN /\ resp' = Response("tip_detective_review", user, "validation_error",
                                decision, message)
            /\ UNCHANGED <<tip, rewards>>
       ELSE LET reviewed == [tip EXCEPT
                               !.detective_message = strip(get_or_empty(message)),
                               !.detective_reviewed_by = user]
            IN
            IF decision = "reject"
            THEN /\ tip' = [reviewed EXCEPT !.status = "detective_rejected"]
                 /\ resp' = Response("tip_detective_review", user, "ok", decision, message)
                 /\ UNCHANGED rewards
            ELSE \* the tip is saved as approved before the reward is worked out
                 /\ tip' = [reviewed EXCEPT !.status = "approved"]
                 /\ IF hasattr_reward(rewards, tip.id)
                    THEN /\ UNCHANGED rewards
                         /\ resp' = Response("tip_detective_review", user, "ok",
                                             decision, message)
                    ELSE IF tip.suspect # NullId
                    THEN \* _compute_most_wanted_metrics is not defined: NameError
                         /\ UNCHANGED rewards
                         /\ resp' = Response("tip_detective_review", user, "server_error",
                                             decision, message)
                    ELSE \E reward_code \in RewardCodes :
                         IF ~Reward_unique(rewards, tip.id, reward_code)
                         THEN \* IntegrityError
                              /\ UNCHANGED rewards
                              /\ resp' = Response("tip_detective_review", user,
                                                  "server_error", decision, message)
                         ELSE /\ rewards' = Reward_create(rewards, tip.id, reward_code,
                                                          reward_amount(tip, case))
                              /\ resp' = Response("tip_detective_review", user, "ok",
                                                  decision, message)

(***************************************************************************)
(* The review handlers of the three workflows, each workflow starting from *)
(* its freshly created entity.                                             *)
(***************************************************************************)
InitSuspectReview ==
    /\ complaint = NoComplaint
    /\ complainants = <<>>
    /\ cases = <<>>
    /\ participants = {}
    /\ \E crime_level \in CrimeLevels : case = InvestigatedCase(crime_level, "detective")
    /\ suspect = NewSuspect
    /\ interrogation = NoInterrogation
    /\ trial = NoTrial
    /\ notifications = <<>>
    /\ now = 0
    /\ NoTipWorld
    /\ NoSceneWorld
    /\ NoWantedWorld
    /\ requests = <<>>
    /\ resp = NoResp

InitTip ==
    /\ complaint = NoComplaint
    /\ complainants = <<>>
    /\ cases = <<>>
    /\ participants = {}
    /\ \E crime_level \in CrimeLevels, assigned_to \in {Nobody, "detective"} :
          case = InvestigatedCase(crime_level, assigned_to)
    /\ suspect = NoSuspect
    /\ interrogation = NoInterrogation
    /\ trial = NoTrial
    /\ notifications = <<>>
    /\ now = 0
    /\ \E refs \in TipReferences : tip = NewTip(refs[1], refs[2])
    /\ rewards = <<>>
    /\ NoSceneWorld
    /\ NoWantedWorld
    /\ requests = <<>>
    /\ resp = NoResp

InitReview == InitComplaint \/ InitSuspectReview \/ InitTip

NextReview ==
    \/ \E user \in ComplaintActors : resubmit(user)
    \/ \E user \in ComplaintActors : cadet_review(user)
    \/ \E user \in ComplaintActors : officer_review(user)
    \/ \E user \in SuspectReviewCallers : CaseSuspectReviewView_post(user)
    \/ \E user \in DetectiveScoreCallers : SuspectInterrogationDetectiveView_post(user)
    \/ \E user \in SergeantScoreCallers : SuspectInterrogationSergeantView_post(user)
    \/ \E user \in CaptainDecisionCallers : SuspectInterrogationCaptainDecisionView_post(user)
    \/ \E user \in ChiefReviewCallers : SuspectInterrogationChiefReviewView_post(user)
    \/ \E user \in TipOfficerReviewCallers : TipOfficerReviewView_post(user)
    \/ \E user \in TipDetectiveReviewCallers : TipDetectiveReviewView_post(user)

SpecReview == InitReview /\ [][NextReview]_vars

(***************************************************************************)
(* Claims about reject decisions.                                          *)
(***************************************************************************)
ReviewOps == {"cadet_review", "officer_review", "suspect_review", "chief_review",
              "tip_officer_review", "tip_detective_review"}

\* the step answers a reject decision whose message is missing or blank
RejectWithoutMessage ==
    /\ resp'.op \in ReviewOps
    /\ resp'.decision \in {"reject", "False"}
    /\ resp'.message \in {"missing", "blank"}

DecisionFields(row) ==
    IF row = NoInterrogation THEN <<None, None, <<>>>>
    ELSE <<row.captain_final_decision, row.chief_decision, row.chief_message>>

ReviewFrame ==
    /\ complaint' = complaint
    /\ complainants' = complainants
    /\ suspect' = suspect
    /\ DecisionFields(interrogation') = DecisionFields(interrogation)
    /\ tip' = tip
    /\ rewards' = rewards

\* the request passes every check the handler makes before it validates the payload
ReachesValidation ==
    CASE resp'.op = "cadet_review" ->
            complaint.current_status \in {"submitted", "officer_rejected"}
      [] resp'.op = "officer_review" -> complaint.current_status = "cadet_approved"
      [] resp'.op = "suspect_review" -> suspect.status = "proposed"
      [] resp'.op = "chief_review" ->
            /\ case.crime_level = "critical"
            /\ suspect.status = "approved"
            /\ interrogation # NoInterrogation
            /\ interrogation.captain_final_decision # None
      [] resp'.op = "tip_officer_review" -> TRUE
      [] resp'.op = "tip_detective_review" ->
            /\ tip.status = "forwarded_to_detective"
            /\ ~tip_assigned_elsewhere(resp'.user)
      [] OTHER -> FALSE

\* C10 as stated: every reject decision submitted with a missing or blank message
\* fails with validation_error and leaves the reviewed entity unchanged.
C10_RejectAlwaysValidationError ==
    [][RejectWithoutMessage => (resp'.code = "validation_error" /\ ReviewFrame)]_vars

\* C10: a reject decision (cadet or officer review of a complaint, sergeant review of a
\* suspect, chief review with decision false, officer or detective review of a tip)
\* submitted by a holder of the review capability with a missing or blank message
\* never succeeds and leaves the reviewed entity's status, messages and decision
\* fields unchanged; it is answered validation_error exactly when it passes the checks
\* the handler makes before validating: the source state for the complaint reviews,
\* the suspect review (already_reviewed otherwise) and the tip detective review (which
\* also tests the assigned detective), critical case, approved suspect and captain
\* decision for the chief review, and none for the tip officer review.
C10_RejectNeedsMessage ==
    [][RejectWithoutMessage
          => /\ ReviewFrame
             /\ resp'.code # "ok"
             /\ resp'.code = "validation_error" <=> ReachesValidation
             /\ resp'.code \in {"validation_error", "invalid_state", "already_reviewed",
                                "not_critical", "missing_captain_decision",
                                "forbidden"}]_vars

C10_Witness ==
    /\ resp.op = "chief_review"
    /\ resp.user = "chief"
    /\ resp.code = "validation_error"
    /\ resp.decision = "False"
    /\ resp.message = "blank"
    /\ interrogation.captain_final_decision = "True"
    /\ interrogation.chief_decision = None

(***************************************************************************)
(* Scene reports: cases/views.py, SceneReportViewSet, and                  *)
(* cases/serializers.py, SceneReportCreateSerializer.  Neither create nor  *)
(* approve opens a transaction, so every save commits as it runs and the   *)
(* rows written before an exception stay written.  SceneReportViewSet is a *)
(* ModelViewSet registered with the router, so it also serves PATCH on a   *)
(* report of the caller's queryset, with SceneReportDetailSerializer.      *)
(***************************************************************************)
SceneActors == {"officer", "chief", "detective"}
SceneTitleInputs == {Absent, <<"x">>}
Witness == <<"phone", "national_id">>
WitnessInputs == {<<>>, <<Witness>>, <<Witness, Witness>>}
SceneFaults == {"none", "report_save", "case_save"}
SceneStatusPatchInputs == {"ABSENT", "pending", "approved"}

\* Case.objects.create(..., status=CaseStatus.DRAFT, created_by=user)
NewSceneCase(user, crime_level) ==
    [id |-> 1, crime_level |-> crime_level, status |-> "draft",
     formed_at |-> NullTime, created_by |-> user]

\* SceneReport.objects.create(case=case, ..., status=SceneReportStatus.PENDING)
NewSceneReport(user) ==
    [id |-> 1, case |-> 1, status |-> "pending", created_by |-> user,
     approved_by |-> Nobody, approved_at |-> NullTime]

\* "for w in witnesses_data: SceneWitness.objects.create(...)": the rows written and
\* whether unique_together (scene_report, phone, national_id) raised IntegrityError
RECURSIVE SceneWitness_create(_, _)
SceneWitness_create(rows, witnesses_data) ==
    IF witnesses_data = <<>> THEN <<rows, FALSE>>
    ELSE IF Head(witnesses_data) \in rows THEN <<rows, TRUE>>
    ELSE SceneWitness_create(rows \cup {Head(witnesses_data)}, Tail(witnesses_data))

\* the two saves that approve a report and activate its Case, in the order both
\* create and approve run them; the result is <<report, case, raised>>
scene_approve_writes(report, c, user, t, fault) ==
    LET report1 == [report EXCEPT !.status = "approved", !.approved_by = user,
                                  !.approved_at = t]
        c1 == [c EXCEPT !.status = "active", !.formed_at = t]
    IN  CASE fault = "report_save" -> <<report, c, TRUE>>
          [] fault = "case_save" -> <<report1, c, TRUE>>
          [] OTHER -> <<report1, c1, FALSE>>

\* SceneReportCreateSerializer.create: <<report, case, witnesses, raised>>
SceneReportCreateSerializer_create(user, crime_level, witnesses_data, t, fault) ==
    LET c == NewSceneCase(user, crime_level)
        report == NewSceneReport(user)
        ws == SceneWitness_create({}, witnesses_data)
    IN  IF ws[2] THEN <<report, c, ws[1], TRUE>>
        ELSE IF user_can_auto_approve_scene_report(user)
        THEN LET w == scene_approve_writes(report, c, user, t, fault)
             IN  <<w[1], w[2], ws[1], w[3]>>
        ELSE <<report, c, ws[1], FALSE>>

\* SceneReportViewSet.create
SceneReportViewSet_create(user) ==
    /\ scene_report = NoSceneReport
    /\ scene_case = NoCase
    /\ UNCHANGED <<complaintVars, suspectVars, tipVars, wantedVars, requests>>
    /\ IF ~user_can_create_scene_report(user)
       THEN /\ resp' = Refused("scene_create", user, "permission_denied")
            /\ UNCHANGED sceneVars
       ELSE \E title \in SceneTitleInputs, crime_level \in {"level_1", "critical"},
               witnesses_data \in WitnessInputs, fault \in SceneFaults :
               IF title = Absent
               THEN /\ resp' = Refused("scene_create", user, "validation_error")
                    /\ UNCHANGED sceneVars
               ELSE LET r == SceneReportCreateSerializer_create(
                                 user, crime_level, witnesses_data, now, fault)
                    IN  /\ scene_report' = r[1]
                        /\ scene_case' = r[2]
                        /\ scene_witnesses' = r[3]
                        /\ resp' = Refused("scene_create", user,
                                           IF r[4] THEN "server_error" ELSE "created")

\* SceneReportViewSet.get_queryset
InSceneReportQueryset(user) ==
    \/ has_perm(user, "cases.view_all_scene_reports")
    \/ has_perm(user, "cases.approve_scene_report")
    \/ scene_report.created_by = user

\* SceneReportViewSet.approve
SceneReportViewSet_approve(user) ==
    /\ scene_report # NoSceneReport
    /\ UNCHANGED <<complaintVars, suspectVars, tipVars, wantedVars, requests>>
    /\ UNCHANGED scene_witnesses
    /\ IF ~user_can_approve_scene_report(user)
       THEN /\ resp' = Refused("scene_approve", user, "permission_denied")
            /\ UNCHANGED <<scene_report, scene_case>>
       ELSE IF ~InSceneReportQueryset(user)
       THEN /\ resp' = Refused("scene_approve", user, "not_found")
            /\ UNCHANGED <<scene_report, scene_case>>
       ELSE IF scene_report.status = "approved"
       THEN /\ resp' = Refused("scene_approve", user, "already_approved")
            /\ UNCHANGED <<scene_report, scene_case>>
       ELSE \E fault \in SceneFaults :
               LET w == scene_approve_writes(scene_report, scene_case, user, now, fault)
               IN  /\ scene_report' = w[1]
                   /\ scene_case' = w[2]
                   /\ resp' = Refused("scene_approve", user,
                                      IF w[3] THEN "server_error" ELSE "ok")

\* ModelSerializer.update of SceneReportDetailSerializer for a payload that carries
\* at most status: every field the payload carries is assigned, then save()
SceneReportDetailSerializer_update(report, status) ==
    [report EXCEPT !.status = IF status = "ABSENT" THEN @ ELSE status]

\* SceneReportViewSet (ModelViewSet.partial_update)
SceneReportViewSet_partial_update(user) ==
    /\ scene_report # NoSceneReport
    /\ UNCHANGED <<complaintVars, suspectVars, tipVars, wantedVars, requests>>
    /\ UNCHANGED <<scene_case, scene_witnesses>>
    /\ IF ~InSceneReportQueryset(user)
       THEN /\ resp' = Refused("scene_partial_update", user, "not_found")
            /\ UNCHANGED scene_report
       ELSE \E status \in SceneStatusPatchInputs :
               /\ scene_report' = SceneReportDetailSerializer_update(scene_report, status)
               /\ resp' = Refused("scene_partial_update", user, "ok")

\* time passes between two requests
SceneTick ==
    /\ scene_report # NoSceneReport
    /\ now < MaxTime
    /\ now' = now + 1
    /\ resp' = NoResp
    /\ UNCHANGED <<complaintVars, tipVars, sceneVars, wantedVars, requests>>
    /\ UNCHANGED <<case, suspect, interrogation, trial, notifications>>

InitScene ==
    /\ complaint = NoComplaint
    /\ complainants = <<>>
    /\ cases = <<>>
    /\ participants = {}
    /\ NoInvestigation
    /\ NoTipWorld
    /\ NoSceneWorld
    /\ NoWantedWorld
    /\ requests = <<>>
    /\ resp = NoResp

NextScene ==
    \/ \E user \in SceneActors : SceneReportViewSet_create(user)
    \/ \E user \in SceneActors : SceneReportViewSet_approve(user)
    \/ \E user \in SceneActors : SceneReportViewSet_partial_update(user)
    \/ SceneTick

SpecScene == InitScene /\ [][NextScene]_vars

(***************************************************************************)
(* Claims about scene reports.                                             *)
(***************************************************************************)
\* C11: in every reachable state an approved SceneReport owns a Case whose status is
\* active and whose formed_at is set.
C11_ApprovedReportHasActiveCase ==
    (scene_report # NoSceneReport /\ scene_report.status = "approved")
       => (scene_case.status = "active" /\ scene_case.formed_at # NullTime)

\* C12: a scene report's status only moves from pending to approved; an approve of a
\* report that is approved already is answered already_approved and changes neither
\* the report nor its Case; the Case's formed_at, once stamped, is never written again.
C12_ApprovedOnce ==
    [][(scene_report # NoSceneReport) =>
          /\ scene_report'.status # scene_report.status
                => (scene_report.status = "pending" /\ scene_report'.status = "approved")
          /\ (resp'.op = "scene_approve" /\ scene_report.status = "approved"
                /\ user_can_approve_scene_report(resp'.user))
                => (resp'.code = "already_approved"
                    /\ UNCHANGED <<scene_report, scene_case>>)
          /\ scene_case.formed_at # NullTime
                => scene_case'.formed_at = scene_case.formed_at
          /\ scene_case.status = "active" => scene_case'.status = "active"]_vars

\* C14: a create makes the report together with its Case; for an actor with the
\* auto-approve capability the report is approved and the Case active with formed_at
\* set as soon as the report exists, for any other actor the report is pending and
\* the Case draft.
C14_CreateAtomic ==
    [][(resp'.op = "scene_create" /\ scene_report = NoSceneReport
          /\ scene_report' # NoSceneReport)
          => /\ scene_case' # NoCase
             /\ IF user_can_auto_approve_scene_report(resp'.user)
                THEN /\ scene_report'.status = "approved"
                     /\ scene_case'.status = "active"
                     /\ scene_case'.formed_at # NullTime
                ELSE /\ scene_report'.status = "pending"
                     /\ scene_case'.status = "draft"]_vars

(***************************************************************************)
(* Approvals of one pending scene report handled concurrently.  A request  *)
(* reads the report with get_object() into its own copy and tests the      *)
(* status on that copy; scene_report.save(update_fields=...) and           *)
(* case.save(update_fields=...) then commit one after the other.  The      *)
(* handler takes no row lock and opens no transaction.                     *)
(***************************************************************************)
NewSceneRequest == [pc |-> "read", local |-> NoSceneReport, code |-> "none"]

\* get_permissions and get_object, then the status test on the request's copy
scene_approve_read(r) ==
    /\ r \in DOMAIN requests
    /\ requests[r].pc = "read"
    /\ LET user == RequestUser(r) IN
       requests' =
          IF ~user_can_approve_scene_report(user)
          THEN [requests EXCEPT ![r].pc = "done", ![r].code = "permission_denied"]
          ELSE IF ~InSceneReportQueryset(user)
          THEN [requests EXCEPT ![r].pc = "done", ![r].code = "not_found"]
          ELSE IF scene_report.status = "approved"
          THEN [requests EXCEPT ![r].pc = "done", ![r].code = "already_approved"]
          ELSE [requests EXCEPT ![r].pc = "save_report", ![r].local = scene_report]
    /\ UNCHANGED <<complaintVars, suspectVars, tipVars, sceneVars, wantedVars, resp>>

\* scene_report.save(update_fields=["status", "approved_by", "approved_at"])
scene_approve_save_report(r) ==
    /\ r \in DOMAIN requests
    /\ requests[r].pc = "save_report"
    /\ scene_report' = [scene_report EXCEPT !.status = "approved",
                                            !.approved_by = RequestUser(r),
                                            !.approved_at = now]
    /\ requests' = [requests EXCEPT ![r].pc = "save_case"]
    /\ UNCHANGED <<complaintVars, suspectVars, tipVars, wantedVars, resp>>
    /\ UNCHANGED <<scene_case, scene_witnesses>>

\* case = scene_report.case; case.save(update_fields=["status", "formed_at"])
scene_approve_save_case(r) ==
    /\ r \in DOMAIN requests
    /\ requests[r].pc = "save_case"
    /\ scene_case' = [scene_case EXCEPT !.status = "active", !.formed_at = now]
    /\ requests' = [requests EXCEPT ![r].pc = "done", ![r].code = "ok"]
    /\ UNCHANGED <<complaintVars, suspectVars, tipVars, wantedVars, resp>>
    /\ UNCHANGED <<scene_report, scene_witnesses>>

\* time passes while the requests are handled
SceneRaceTick ==
    /\ now < MaxTime
    /\ now' = now + 1
    /\ UNCHANGED <<complaintVars, tipVars, sceneVars, wantedVars, requests, resp>>
    /\ UNCHANGED <<case, suspect, interrogation, trial, notifications>>

InitSceneRace ==
    /\ complaint = NoComplaint
    /\ complainants = <<>>
    /\ cases = <<>>
    /\ participants = {}
    /\ NoInvestigation
    /\ NoTipWorld
    /\ scene_report = NewSceneReport("officer")
    /\ \E crime_level \in {"level_1", "critical"} :
          scene_case = NewSceneCase("officer", crime_level)
    /\ scene_witnesses \in {{}, {Witness}}
    /\ NoWantedWorld
    /\ requests = [r \in 1..NumRequests |-> NewSceneRequest]
    /\ resp = NoResp

NextSceneRace ==
    \/ \E r \in 1..NumRequests : scene_approve_read(r)
    \/ \E r \in 1..NumRequests : scene_approve_save_report(r)
    \/ \E r \in 1..NumRequests : scene_approve_save_case(r)
    \/ SceneRaceTick

SpecSceneRace == InitSceneRace /\ [][NextSceneRace]_vars

\* C13: of the approve requests for one pending scene report that are processed
\* concurrently, in every interleaving exactly one succeeds and every other one is
\* answered already_approved, so approved_by, approved_at and formed_at are written
\* by one request only.
C13_SceneApprovalsSerialized ==
    (\A r \in DOMAIN requests : requests[r].pc = "done")
       => /\ Cardinality({r \in DOMAIN requests : requests[r].code = "ok"}) = 1
          /\ \A r \in DOMAIN requests :
                requests[r].code \in {"ok", "already_approved"}

(***************************************************************************)
(* Proposal and review of a suspect: investigations/views.py,              *)
(* CaseSuspectProposeView and CaseSuspectReviewView, followed by the two   *)
(* interrogation scores.                                                   *)
(***************************************************************************)
ProposeCallers == {"detective", "detective2", "captain", "admin", "officer"}
SuspectReviewers == {"sergeant", "detective", "officer"}
NameInputs == {Absent, <<"x">>}
NationalIdInputs == {Absent, <<"sp">>, <<"x">>}

\* CaseSuspectProposeSerializer: first_name is required, and validate wants a
\* national_id or a phone that is not blank (the phone is left out of the payload)
CaseSuspectProposeSerializer_validate(first_name, national_id) ==
    /\ first_name # Absent
    /\ strip(first_name) # <<>>
    /\ strip(get_or_empty(national_id)) # <<>>

\* CaseSuspect.objects.create(case=case, proposed_by=request.user, ...)
CaseSuspect_create(user) == [NewSuspect EXCEPT !.proposed_by = user]

\* Mutant: the propose capability is not asked for
CaseSuspectProposeView_precheck_without_capability(user) ==
    IF ~user_can_access_case(user, case) THEN "not_found"
    ELSE IF ~_require_assigned_detective(user, case) THEN "forbidden"
    ELSE "ok"

\* CaseSuspectProposeView.post: the checks made before the payload is read
CaseSuspectProposeView_precheck(user) ==
    IF ~user_can_access_case(user, case) THEN "not_found"
    ELSE IF ~_require_assigned_detective(user, case) THEN "forbidden"
    ELSE IF ~user_can_propose_case_suspect(user) THEN "forbidden"
    ELSE "ok"

CaseSuspectProposeView_post(user) ==
    /\ case # NoCase
    /\ suspect = NoSuspect
    /\ UNCHANGED <<complaintVars, tipVars, sceneVars, wantedVars, requests>>
    /\ UNCHANGED <<case, interrogation, trial, notifications, now>>
    /\ LET pre == CaseSuspectProposeView_precheck(user) IN
       IF pre # "ok"
       THEN /\ resp' = Refused("suspect_propose", user, pre)
            /\ UNCHANGED suspect
       ELSE \E first_name \in NameInputs, national_id \in NationalIdInputs :
               IF ~CaseSuspectProposeSerializer_validate(first_name, national_id)
               THEN /\ resp' = Refused("suspect_propose", user, "validation_error")
                    /\ UNCHANGED suspect
               ELSE /\ suspect' = CaseSuspect_create(user)
                    /\ resp' = Refused("suspect_propose", user, "created")

\* time passes between two requests
SuspectTick ==
    /\ case # NoCase
    /\ now < MaxTime
    /\ now' = now + 1
    /\ resp' = NoResp
    /\ UNCHANGED <<complaintVars, tipVars, sceneVars, wantedVars, requests>>
    /\ UNCHANGED <<case, suspect, interrogation, trial, notifications>>

\* a case assigned to "detective", of which "detective2" is a participant
InitSuspect ==
    /\ complaint = NoComplaint
    /\ complainants = <<>>
    /\ cases = <<>>
    /\ participants = {<<1, "detective2">>}
    /\ \E crime_level \in CrimeLevels : case = InvestigatedCase(crime_level, "detective")
    /\ suspect = NoSuspect
    /\ interrogation = NoInterrogation
    /\ trial = NoTrial
    /\ notifications = <<>>
    /\ now = 0
    /\ NoTipWorld
    /\ NoSceneWorld
    /\ NoWantedWorld
    /\ requests = <<>>
    /\ resp = NoResp

NextSuspect ==
    \/ \E user \in ProposeCallers : CaseSuspectProposeView_post(user)
    \/ \E user \in SuspectReviewers : CaseSuspectReviewView_post(user)
    \/ \E user \in DetectiveScoreCallers : SuspectInterrogationDetectiveView_post(user)
    \/ \E user \in SergeantScoreCallers : SuspectInterrogationSergeantView_post(user)
    \/ SuspectTick

SpecSuspect == InitSuspect /\ [][NextSuspect]_vars

(***************************************************************************)
(* Claims about the proposal and the review of a suspect.                  *)
(***************************************************************************)
\* C15: a propose request creates a CaseSuspect, in status proposed, only when the
\* actor is the assigned investigator of the case; a propose request of any other
\* actor is refused with PermissionDenied and creates no CaseSuspect.
C15_OnlyAssignedProposes ==
    [][resp'.op = "suspect_propose" =>
          /\ suspect' # suspect
                => (resp'.user = case.assigned_to /\ suspect'.status = "proposed")
          /\ resp'.user # case.assigned_to
                => (resp'.code = "forbidden" /\ suspect' = suspect)]_vars

\* the four fields a review writes
SuspectReviewFields(s) == <<s.status, s.sergeant_message, s.reviewed_by, s.reviewed_at>>

\* C16: a suspect's status changes only by a review applied while it is proposed,
\* approve giving approved and reject giving rejected; approved and rejected are
\* terminal; a review of a suspect that is not proposed leaves status,
\* sergeant_message, reviewed_by and reviewed_at unchanged and is answered
\* already_reviewed to every caller who holds the review capability.
C16_ReviewOnlyFromProposed ==
    [][suspect # NoSuspect =>
          /\ suspect'.status # suspect.status
                => /\ resp'.op = "suspect_review"
                   /\ resp'.code = "ok"
                   /\ suspect.status = "proposed"
                   /\ suspect'.status =
                         IF resp'.decision = "approve" THEN "approved" ELSE "rejected"
          /\ (resp'.op = "suspect_review" /\ suspect.status # "proposed")
                => /\ SuspectReviewFields(suspect') = SuspectReviewFields(suspect)
                   /\ user_can_review_case_suspect(resp'.user)
                         => resp'.code = "already_reviewed"]_vars

C16_Witness ==
    /\ suspect # NoSuspect
    /\ suspect.status = "rejected"
    /\ resp.op = "suspect_review"
    /\ resp.user = "sergeant"
    /\ resp.decision = "approve"
    /\ resp.code = "already_reviewed"

\* C17: in every state reached through propose and review, reviewed_by and
\* reviewed_at of a CaseSuspect are set exactly when its status is not proposed.
C17_ReviewFieldsIffReviewed ==
    suspect # NoSuspect
       => /\ suspect.reviewed_by # Nobody <=> suspect.status # "proposed"
          /\ suspect.reviewed_at # NullTime <=> suspect.status # "proposed"

C17_Witness ==
    /\ suspect # NoSuspect
    /\ suspect.status = "rejected"
    /\ suspect.reviewed_by = "sergeant"
    /\ suspect.reviewed_at = MaxTime
    /\ resp.op = "suspect_review"
    /\ resp.code = "ok"

ScoreOps == {"detective_score", "sergeant_score"}

StoredScores(row) ==
    IF row = NoInterrogation THEN <<NoScore, NoScore>>
    ELSE <<row.detective_score, row.sergeant_score>>

CasePatchCallers == {"detective", "officer"}
CrimeLevelPatchInputs == {"ABSENT", "level_1", "critical"}

\* CaseViewSet.get_queryset
InCaseQueryset(user, c) ==
    \/ has_perm(user, "cases.view_all_cases")
    \/ c.created_by = user
    \/ c.assigned_to = user
    \/ <<c.id, user>> \in participants

\* CanViewCase.has_object_permission
CanViewCase(user, c) ==
    \/ user_can_view_all_cases(user)
    \/ c.created_by = user
    \/ c.assigned_to = user
    \/ <<c.id, user>> \in participants

\* CaseDetailSerializer (fields = "__all__"): a field of the payload is assigned
CaseDetailSerializer_update(c, crime_level) ==
    IF crime_level = "ABSENT" THEN c ELSE [c EXCEPT !.crime_level = crime_level]

\* ModelViewSet.partial_update of CaseViewSet
CaseViewSet_partial_update(user) ==
    /\ case # NoCase
    /\ suspect # NoSuspect
    /\ UNCHANGED <<complaintVars, tipVars, sceneVars, wantedVars, requests>>
    /\ UNCHANGED <<suspect, interrogation, trial, notifications, now>>
    /\ IF ~InCaseQueryset(user, case)
       THEN /\ resp' = Refused("case_partial_update", user, "not_found")
            /\ UNCHANGED case
       ELSE IF ~CanViewCase(user, case)
       THEN /\ resp' = Refused("case_partial_update", user, "forbidden")
            /\ UNCHANGED case
       ELSE \E crime_level \in CrimeLevelPatchInputs :
               /\ case' = CaseDetailSerializer_update(case, crime_level)
               /\ resp' = Refused("case_partial_update", user, "ok")

NextTrialApi ==
    \/ NextTrial
    \/ \E user \in CasePatchCallers : CaseViewSet_partial_update(user)

SpecTrialApi == InitTrial /\ [][NextTrialApi]_vars

\* the two decisions of an Interrogation
InterrogationDecisions(row) ==
    IF row = NoInterrogation THEN <<None, None>>
    ELSE <<row.captain_final_decision, row.chief_decision>>

\* C19: in every reachable state of an Interrogation, captain_final_decision is set
\* only with both scores present and chief_decision only with captain_final_decision
\* set and a critical owning case; a captain decision without both scores and a
\* chief review without a captain decision or on a non-critical case fail, each
\* leaving the decisions unchanged.
C19_DecisionsInOrder ==
    [][/\ interrogation' # NoInterrogation
             => /\ interrogation'.captain_final_decision # None
                      => /\ interrogation'.detective_score # NoScore
                         /\ interrogation'.sergeant_score # NoScore
                /\ interrogation'.chief_decision # None
                      => /\ interrogation'.captain_final_decision # None
                         /\ case'.crime_level = "critical"
       /\ (/\ resp'.op = "captain_decision"
           /\ NoScore \in {StoredScores(interrogation)[1], StoredScores(interrogation)[2]})
             => /\ resp'.code # "ok"
                /\ InterrogationDecisions(interrogation') = InterrogationDecisions(interrogation)
       /\ resp'.code \in {"missing_scores", "missing_captain_decision", "not_critical"}
             => InterrogationDecisions(interrogation') = InterrogationDecisions(interrogation)
       /\ (/\ resp'.op = "chief_review"
           /\ \/ InterrogationDecisions(interrogation)[1] = None
              \/ case.crime_level # "critical")
             => /\ resp'.code # "ok"
                /\ InterrogationDecisions(interrogation') = InterrogationDecisions(interrogation)]_vars

\* a text that is empty or made of white space only
IsBlank(text) == strip(get_or_empty(text)) = <<>>

\* C20: every stored Trial verdict has a non-blank punishment title and description
\* if it is guilty and an empty title and description if it is innocent, whatever
\* punishment the request carried; a guilty submission with a blank title or
\* description is answered validation_error and stores nothing.
C20_PunishmentMatchesVerdict ==
    [][/\ trial' # NoTrial
             => /\ trial'.verdict \in {"guilty", "innocent"}
                /\ trial'.verdict = "guilty"
                      => /\ ~IsBlank(trial'.punishment_title)
                         /\ ~IsBlank(trial'.punishment_description)
                /\ trial'.verdict = "innocent"
                      => /\ trial'.punishment_title = <<>>
                         /\ trial'.punishment_description = <<>>
       /\ (resp'.op = "trial_verdict" /\ resp'.code = "validation_error")
             => trial' = trial
       /\ trial' # trial
             => /\ resp'.op = "trial_verdict"
                /\ resp'.code = "ok"
                /\ trial'.verdict = resp'.decision
       /\ resp'.op = "trial_verdict" =>
          \A title \in PunishmentInputs, desc \in PunishmentInputs :
             LET guilty == TrialVerdictWriteSerializer_validate("guilty", title, desc)
                 innocent == TrialVerdictWriteSerializer_validate("innocent", title, desc)
             IN  /\ guilty.valid <=> (~IsBlank(title) /\ ~IsBlank(desc))
                 /\ innocent.valid
                 /\ innocent.punishment_title = <<>>
                 /\ innocent.punishment_description = <<>>]_vars

\* an innocent verdict has replaced a guilty one and its punishment
C20_Witness ==
    /\ trial # NoTrial
    /\ trial.verdict = "innocent"
    /\ trial.punishment_title = <<>>
    /\ trial.punishment_description = <<>>
    /\ trial.verdict_at = MaxTime
    /\ trial.created_by = "judge"
    /\ resp.op = "trial_verdict"
    /\ resp.code = "ok"
    /\ resp.decision = "innocent"

(***************************************************************************)
(* The tip workflow on its own: the two reviews of a tip and the reward    *)
(* lookup (investigations/views.py, TipOfficerReviewView,                  *)
(* TipDetectiveReviewView, RewardLookupView).                              *)
(***************************************************************************)
TipReviewers == {"officer", "detective", "detective2", "admin"}
RewardLookupCallers == {"officer", "citizen"}
LookupNationalIdInputs == {"n1", "n2"}

user_can_reward_lookup(user) ==
    has_perm_or_role(user, {"investigations.reward_lookup"},
                     {"Officer", "Detective", "Captain", "Chief"})

\* User.national_id (unique) of the users that submit tips
national_id_of(user) == IF user = "citizen" THEN "n1" ELSE "n2"

\* Mutant: the lookup does not compare the national ID of the tip's user
RewardLookup_filter_code_only(rows, t, national_id, reward_code) ==
    {i \in DOMAIN rows :
        /\ rows[i].reward_code = reward_code
        /\ rows[i].tip = t.id
        /\ t.status = "approved"}

\* Reward.objects.filter(reward_code=..., tip__user__national_id=...,
\*                       tip__status=TipStatus.APPROVED)
RewardLookup_filter(rows, t, national_id, reward_code) ==
    {i \in DOMAIN rows :
        /\ rows[i].reward_code = reward_code
        /\ rows[i].tip = t.id
        /\ national_id_of(t.user) = national_id
        /\ t.status = "approved"}

\* RewardLookupView.post; the response keeps the two values of the payload
RewardLookupView_post(user) ==
    /\ tip # NoTip
    /\ UNCHANGED <<complaintVars, suspectVars, tipVars, sceneVars, wantedVars, requests>>
    /\ IF ~user_can_reward_lookup(user)
       THEN resp' = Refused("reward_lookup", user, "forbidden")
       ELSE \E national_id \in LookupNationalIdInputs, reward_code \in RewardCodes :
               resp' = [op |-> "reward_lookup", user |-> user,
                        code |-> IF RewardLookup_filter(rewards, tip, national_id,
                                                        reward_code) = {}
                                 THEN "not_found" ELSE "ok",
                        decision |-> national_id, message |-> reward_code]

NextTip ==
    \/ \E user \in TipReviewers : TipOfficerReviewView_post(user)
    \/ \E user \in TipReviewers : TipDetectiveReviewView_post(user)
    \/ \E user \in RewardLookupCallers : RewardLookupView_post(user)

SpecTip == InitTip /\ [][NextTip]_vars

(***************************************************************************)
(* Claims about tips and rewards.                                          *)
(***************************************************************************)
TipTransitions ==
    {<<"submitted", "officer_rejected">>, <<"submitted", "forwarded_to_detective">>,
     <<"forwarded_to_detective", "detective_rejected">>,
     <<"forwarded_to_detective", "approved">>}

\* the payload of a review is valid: a reject carries a message that is not blank
ReviewPayloadValid ==
    ~(resp'.decision = "reject" /\ resp'.message \in {"missing", "blank"})

\* the status of the tip changes only along the four transitions, and a detective
\* review of a tip that is not forwarded is answered invalid_state
TipStatusFrame ==
    /\ tip'.status # tip.status => <<tip.status, tip'.status>> \in TipTransitions
    /\ (/\ resp'.op = "tip_detective_review"
        /\ user_can_detective_review_tip(resp'.user)
        /\ tip.status # "forwarded_to_detective")
          => (resp'.code = "invalid_state" /\ tip' = tip)

\* C21: a tip's status changes only along submitted -> officer_rejected, submitted ->
\* forwarded_to_detective, forwarded_to_detective -> detective_rejected and
\* forwarded_to_detective -> approved, the three other states being terminal; an
\* officer review of a tip that is not submitted and a detective review of a tip
\* that is not forwarded_to_detective are answered invalid_state and leave the tip
\* unchanged.
C21_TipTransitions ==
    [][/\ TipStatusFrame
       /\ (/\ resp'.op = "tip_officer_review"
           /\ user_can_officer_review_tip(resp'.user)
           /\ tip.status # "submitted")
             => (resp'.code = "invalid_state" /\ tip' = tip)]_vars

\* C21 as amended: the officer review validates its payload before it tests the
\* status, so on a tip that is not submitted it answers validation_error to an
\* invalid payload and invalid_state to a valid one, the tip unchanged in both cases.
C21_TipTransitionsValidated ==
    [][/\ TipStatusFrame
       /\ (/\ resp'.op = "tip_officer_review"
           /\ user_can_officer_review_tip(resp'.user)
           /\ tip.status # "submitted")
             => /\ tip' = tip
                /\ resp'.code = IF ReviewPayloadValid THEN "invalid_state"
                                ELSE "validation_error"]_vars

\* an officer review of a tip the detective has rejected was refused
C21_Witness ==
    /\ tip # NoTip
    /\ tip.status = "detective_rejected"
    /\ resp.op = "tip_officer_review"
    /\ resp.user = "officer"
    /\ resp.decision = "forward"
    /\ resp.code = "invalid_state"

C23_ApprovedTipHasReward ==
    (tip # NoTip /\ tip.status = "approved") => hasattr_reward(rewards, tip.id)

TipRaceUser(r) == IF r % 2 = 1 THEN "detective" ELSE "admin"

NewTipRequest == [pc |-> "read", decision |-> "none", local |-> NoTip, code |-> "none"]

\* the capability test, get_object_or_404, the status and assignment tests on the
\* request's copy of the row, and the serializer (a reject carries a message)
tip_review_read(r) ==
    /\ r \in DOMAIN requests
    /\ requests[r].pc = "read"
    /\ LET user == TipRaceUser(r) IN
       IF ~user_can_detective_review_tip(user)
       THEN requests' = [requests EXCEPT ![r].pc = "done", ![r].code = "forbidden"]
       ELSE IF tip.status \notin TipDetectiveReviewAllowedFrom
       THEN requests' = [requests EXCEPT ![r].pc = "done", ![r].code = "invalid_state"]
       ELSE IF tip_assigned_elsewhere(user)
       THEN requests' = [requests EXCEPT ![r].pc = "done", ![r].code = "forbidden"]
       ELSE \E decision \in Decisions :
               requests' = [requests EXCEPT ![r].pc = "save_tip", ![r].local = tip,
                                            ![r].decision = decision]
    /\ UNCHANGED <<complaintVars, suspectVars, tipVars, sceneVars, wantedVars, resp>>

\* tip.save(update_fields=["status", "detective_message", "detective_reviewed_by", ...])
tip_review_save_tip(r) ==
    /\ r \in DOMAIN requests
    /\ requests[r].pc = "save_tip"
    /\ tip' = [tip EXCEPT
                 !.status = IF requests[r].decision = "reject" THEN "detective_rejected"
                            ELSE "approved",
                 !.detective_message = IF requests[r].decision = "reject" THEN <<"x">>
                                       ELSE <<>>,
                 !.detective_reviewed_by = TipRaceUser(r)]
    /\ requests' = IF requests[r].decision = "reject"
                   THEN [requests EXCEPT ![r].pc = "done", ![r].code = "ok"]
                   ELSE [requests EXCEPT ![r].pc = "test_reward"]
    /\ UNCHANGED <<complaintVars, suspectVars, sceneVars, wantedVars, resp, rewards>>

\* hasattr(tip, "reward"): the SELECT of the tip's reward, then the amount
tip_review_test_reward(r) ==
    /\ r \in DOMAIN requests
    /\ requests[r].pc = "test_reward"
    /\ requests' =
          IF hasattr_reward(rewards, requests[r].local.id)
          THEN [requests EXCEPT ![r].pc = "done", ![r].code = "ok"]
          ELSE IF requests[r].local.suspect # NullId
          THEN \* _compute_most_wanted_metrics is not defined: NameError
               [requests EXCEPT ![r].pc = "done", ![r].code = "server_error"]
          ELSE [requests EXCEPT ![r].pc = "create_reward"]
    /\ UNCHANGED <<complaintVars, suspectVars, tipVars, sceneVars, wantedVars, resp>>

\* Reward.objects.create: the INSERT, refused by the database (IntegrityError)
\* when it breaks a unique constraint
tip_review_create_reward(r) ==
    /\ r \in DOMAIN requests
    /\ requests[r].pc = "create_reward"
    /\ \E reward_code \in RewardCodes :
          IF ~Reward_unique(rewards, requests[r].local.id, reward_code)
          THEN /\ requests' = [requests EXCEPT ![r].pc = "done",
                                               ![r].code = "server_error"]
               /\ UNCHANGED rewards
          ELSE /\ rewards' = Reward_create(rewards, requests[r].local.id, reward_code,
                                           reward_amount(requests[r].local, case))
               /\ requests' = [requests EXCEPT ![r].pc = "done", ![r].code = "ok"]
    /\ UNCHANGED <<complaintVars, suspectVars, sceneVars, wantedVars, resp, tip>>

\* a forwarded tip and the requests that are about to review it
InitTipRace ==
    /\ complaint = NoComplaint
    /\ complainants = <<>>
    /\ cases = <<>>
    /\ participants = {}
    /\ \E crime_level \in CrimeLevels, assigned_to \in {Nobody, "detective"} :
          case = InvestigatedCase(crime_level, assigned_to)
    /\ suspect = NoSuspect
    /\ interrogation = NoInterrogation
    /\ trial = NoTrial
    /\ notifications = <<>>
    /\ now = 0
    /\ \E refs \in TipReferences :
          tip = [NewTip(refs[1], refs[2]) EXCEPT !.status = "forwarded_to_detective",
                                                 !.officer_reviewed_by = "officer"]
    /\ rewards = <<>>
    /\ NoSceneWorld
    /\ NoWantedWorld
    /\ requests = [r \in 1..NumRequests |-> NewTipRequest]
    /\ resp = NoResp

NextTipRace ==
    \/ \E r \in 1..NumRequests : tip_review_read(r)
    \/ \E r \in 1..NumRequests : tip_review_save_tip(r)
    \/ \E r \in 1..NumRequests : tip_review_test_reward(r)
    \/ \E r \in 1..NumRequests : tip_review_create_reward(r)

SpecTipRace == InitTipRace /\ [][NextTipRace]_vars

\* the Reward rows of a tip
RewardsOf(rows, tip_id) == {i \in DOMAIN rows : rows[i].tip = tip_id}

\* C24: in every reachable state a tip has at most one Reward: a detective approval
\* creates a Reward only if the tip has none, and no sequence or interleaving of
\* detective-review requests on the same tip yields a second Reward or replaces the
\* reward_code or reward_amount of an existing one.
C24_AtMostOneReward ==
    [][/\ Cardinality(RewardsOf(rewards', tip.id)) <= 1
       /\ \A i \in DOMAIN rewards : i \in DOMAIN rewards' /\ rewards'[i] = rewards[i]
       /\ rewards' # rewards => RewardsOf(rewards, tip.id) = {}]_vars

\* two approvals were handled together: one created the Reward, the INSERT of the
\* other was refused
C24_Witness ==
    /\ Len(rewards) = 1
    /\ requests[1].pc = "done" /\ requests[1].decision = "approve"
    /\ requests[2].pc = "done" /\ requests[2].decision = "approve"
    /\ {requests[1].code, requests[2].code} = {"ok", "server_error"}

(***************************************************************************)
(* The most-wanted list: investigations/views.py, MostWantedView.get, a    *)
(* function of the CaseSuspect table and of the current date.  A name is a *)
(* sequence of characters over "a", "A" (the upper case of "a") and "|";   *)
(* dates are counted in days.                                              *)
(***************************************************************************)
MaxSuspects == 2
DefaultLimit == 10

\* str.lower
lower(text) == [i \in DOMAIN text |-> IF text[i] = "A" THEN "a" ELSE text[i]]

\* the persons the suspects are: (national_id, first_name, last_name, phone)
PersonInputs ==
    {[national_id |-> <<"n">>, first_name |-> <<"a">>, last_name |-> <<"a">>,
      phone |-> <<>>],
     [national_id |-> <<>>, first_name |-> <<"a", "|">>, last_name |-> <<"a">>,
      phone |-> <<"1">>],
     [national_id |-> <<>>, first_name |-> <<"A", "|">>, last_name |-> <<"a">>,
      phone |-> <<"1">>],
     [national_id |-> <<>>, first_name |-> <<"a">>, last_name |-> <<"|", "a">>,
      phone |-> <<"1">>]}

\* an Interrogation with the two decisions given
DecidedInterrogation(captain_final_decision, chief_decision) ==
    [NewInterrogation EXCEPT !.detective_score = 1, !.sergeant_score = 1,
                             !.captain_final_decision = captain_final_decision,
                             !.chief_decision = chief_decision]

\* the case of a suspect: the two fields the view reads
WantedCase(crime_level, status) == [crime_level |-> crime_level, status |-> status]

\* status, interrogation, case and day of proposal of the suspects that pass the
\* filter of the view: wanted since today, wanted since day 0, and case closed
QualifyingInputs ==
    {[status |-> "approved", interrogation |-> DecidedInterrogation("True", None),
      case |-> WantedCase("level_1", "active"), proposed_at |-> MaxTime + 1],
     [status |-> "approved", interrogation |-> DecidedInterrogation("True", "True"),
      case |-> WantedCase("critical", "active"), proposed_at |-> 0],
     [status |-> "approved", interrogation |-> DecidedInterrogation("True", "True"),
      case |-> WantedCase("critical", "closed"), proposed_at |-> 0]}

\* ... and of those that do not
OtherInputs ==
    {[status |-> "proposed", interrogation |-> NoInterrogation,
      case |-> WantedCase("level_1", "active"), proposed_at |-> 0],
     [status |-> "rejected", interrogation |-> NoInterrogation,
      case |-> WantedCase("level_1", "active"), proposed_at |-> 0],
     [status |-> "approved", interrogation |-> NoInterrogation,
      case |-> WantedCase("level_1", "active"), proposed_at |-> 0],
     [status |-> "approved", interrogation |-> DecidedInterrogation("False", None),
      case |-> WantedCase("level_1", "active"), proposed_at |-> 0],
     [status |-> "approved", interrogation |-> DecidedInterrogation("True", None),
      case |-> WantedCase("critical", "active"), proposed_at |-> 0],
     [status |-> "approved", interrogation |-> DecidedInterrogation("True", "False"),
      case |-> WantedCase("critical", "active"), proposed_at |-> 0]}

\* a CaseSuspect row without its id
WantedRow(person, q) ==
    [national_id |-> person.national_id, first_name |-> person.first_name,
     last_name |-> person.last_name, phone |-> person.phone, photo |-> None,
     status |-> q.status, interrogation |-> q.interrogation, case |-> q.case,
     proposed_at |-> q.proposed_at]

\* the rows of the table
SuspectRowInputs ==
    {WantedRow(person, q) : person \in PersonInputs, q \in QualifyingInputs}
    \cup
    {WantedRow(person, q) :
        person \in {x \in PersonInputs : x.national_id # <<>>}, q \in OtherInputs}

SuspectTables ==
    UNION {[1..n -> SuspectRowInputs] : n \in 0..MaxSuspects}

LimitInputs == {"ABSENT", "x", "-1", "0", "1"}

\* _suspect_identity_key: "nid:<national_id>" or "np:<first>|<last>|<phone>"
_suspect_identity_key(s) ==
    IF s.national_id # <<>> THEN <<"nid:">> \o s.national_id
    ELSE <<"np:">> \o lower(strip(s.first_name)) \o <<"|">>
                   \o lower(strip(s.last_name)) \o <<"|">> \o strip(s.phone)

\* the filter of the queryset and the two tests that open the loop
MostWanted_qualifies(s) ==
    /\ s.status = "approved"
    /\ s.interrogation # NoInterrogation
    /\ s.interrogation.captain_final_decision = "True"
    /\ s.case.crime_level = "critical" => s.interrogation.chief_decision = "True"

\* Mutant: the days of a closed case count as well
days_wanted_closed_too(s, today) ==
    IF today - s.proposed_at = 0 THEN 1 ELSE today - s.proposed_at

\* (timezone.now().date() - s.proposed_at.date()).days or 1, or 0 for a closed case
days_wanted(s, today) ==
    IF s.case.status # "closed"
    THEN IF today - s.proposed_at = 0 THEN 1 ELSE today - s.proposed_at
    ELSE 0

max(a, b) == IF a >= b THEN a ELSE b

\* the loop over the suspects: groups is a dict, kept here in insertion order
RECURSIVE MostWanted_groups(_, _)
MostWanted_groups(rows, today) ==
    IF rows = <<>> THEN <<>>
    ELSE LET groups == MostWanted_groups(SubSeq(rows, 1, Len(rows) - 1), today)
             s == rows[Len(rows)]
             key == _suspect_identity_key(s)
             degree == CRIME_LEVEL_DEGREE(s.case.crime_level)
             days == days_wanted(s, today)
             found == {i \in DOMAIN groups : groups[i].key = key}
         IN  IF ~MostWanted_qualifies(s) THEN groups
             ELSE IF found = {}
             THEN Append(groups, [key |-> key, rep |-> s, max_days_wanted |-> days,
                                  max_crime_degree |-> degree])
             ELSE LET i == CHOOSE i \in found : TRUE
                      g == groups[i]
                  IN  [groups EXCEPT ![i] =
                          [key |-> key,
                           rep |-> IF g.rep.photo = None /\ s.photo # None THEN s
                                   ELSE g.rep,
                           max_days_wanted |-> max(g.max_days_wanted, days),
                           max_crime_degree |-> max(g.max_crime_degree, degree)]]

\* one item of the response; key names the group the item was built from
MostWanted_item(g) ==
    [key |-> g.key, suspect_id |-> g.rep.id,
     first_name |-> g.rep.first_name, last_name |-> g.rep.last_name,
     national_id |-> g.rep.national_id, phone |-> g.rep.phone,
     max_days_wanted |-> g.max_days_wanted,
     max_crime_degree |-> g.max_crime_degree,
     ranking |-> g.max_days_wanted * g.max_crime_degree,
     reward_amount |-> g.max_days_wanted * g.max_crime_degree * BaseRewardAmount]

\* the items of the groups whose ranking is positive
RECURSIVE MostWanted_items(_)
MostWanted_items(groups) ==
    IF groups = <<>> THEN <<>>
    ELSE LET item == MostWanted_item(Head(groups)) IN
         IF item.ranking <= 0 THEN MostWanted_items(Tail(groups))
         ELSE <<item>> \o MostWanted_items(Tail(groups))

\* list.sort(key=ranking, reverse=True): stable, equal rankings keep their order
\* Mutant: the list is sorted without reverse=True
ranks_before_ascending(a, b) == a.ranking <= b.ranking

\* key=lambda x: x["ranking"], reverse=True: a stays before b
ranks_before(a, b) == a.ranking >= b.ranking

RECURSIVE insert_by_ranking(_, _)
insert_by_ranking(sorted, item) ==
    IF sorted = <<>> THEN <<item>>
    ELSE IF ranks_before(Head(sorted), item)
    THEN <<Head(sorted)>> \o insert_by_ranking(Tail(sorted), item)
    ELSE <<item>> \o sorted

RECURSIVE sort_by_ranking(_)
sort_by_ranking(items) ==
    IF items = <<>> THEN <<>>
    ELSE insert_by_ranking(sort_by_ranking(SubSeq(items, 1, Len(items) - 1)),
                           items[Len(items)])

\* int(limit) if limit is not None else 10, and 10 on ValueError
parse_limit(limit) ==
    CASE limit = "-1" -> 0 - 1
      [] limit = "0" -> 0
      [] limit = "1" -> 1
      [] OTHER -> DefaultLimit

\* the orders in which the queryset can return the rows: CaseSuspect.Meta.ordering
\* is ["-proposed_at"], and rows proposed at the same time come in any order
QuerysetOrders(rows) ==
    {p \in [DOMAIN rows -> DOMAIN rows] :
        /\ \A i, j \in DOMAIN rows : i # j => p[i] # p[j]
        /\ \A i, j \in DOMAIN rows :
              i < j => rows[p[i]].proposed_at >= rows[p[j]].proposed_at}

\* the rows with their ids, in the order p
CaseSuspect_objects(rows, p) ==
    [i \in DOMAIN rows |-> [id |-> p[i]] @@ rows[p[i]]]

\* MostWantedView.get (public): the first request after the table was written and
\* the same request once more, with no write in between; items holds the sorted
\* list before it is cut, previous the outcome of the request before
MostWantedView_get ==
    /\ IF most_wanted = NotComputed THEN TRUE ELSE most_wanted.previous = NotComputed
    /\ \E limit \in IF most_wanted = NotComputed THEN LimitInputs
                     ELSE {most_wanted.limit},
          p \in QuerysetOrders(suspects) :
          LET items == sort_by_ranking(MostWanted_items(
                           MostWanted_groups(CaseSuspect_objects(suspects, p), now)))
              n == max(parse_limit(limit), 1)
          IN  most_wanted' = [limit |-> limit, items |-> items,
                              data |-> SubSeq(items, 1, IF n < Len(items) THEN n
                                                        ELSE Len(items)),
                              previous |-> most_wanted]
    /\ resp' = Refused("most_wanted", Nobody, "ok")
    /\ UNCHANGED <<complaintVars, suspectVars, tipVars, sceneVars, requests>>
    /\ UNCHANGED suspects

\* the table of suspects on the day MaxTime + 1, no list computed yet
InitMostWanted ==
    /\ complaint = NoComplaint
    /\ complainants = <<>>
    /\ cases = <<>>
    /\ participants = {}
    /\ case = NoCase
    /\ suspect = NoSuspect
    /\ interrogation = NoInterrogation
    /\ trial = NoTrial
    /\ notifications = <<>>
    /\ now = MaxTime + 1
    /\ NoTipWorld
    /\ NoSceneWorld
    /\ suspects \in SuspectTables
    /\ most_wanted = NotComputed
    /\ requests = <<>>
    /\ resp = NoResp

NextMostWanted == MostWantedView_get

SpecMostWanted == InitMostWanted /\ [][NextMostWanted]_vars

(***************************************************************************)
(* Claims about the most-wanted list.                                      *)
(***************************************************************************)
\* the person a suspect is: the national ID when there is one, otherwise the
\* lower-cased first name, the lower-cased last name and the phone
PersonIdentity(s) ==
    IF s.national_id # <<>> THEN <<"national_id", s.national_id>>
    ELSE <<"name_phone", lower(s.first_name), lower(s.last_name), s.phone>>

\* the suspects that count: approved, the captain's decision true and, in a
\* critical case, the chief's decision true
Qualifying ==
    {j \in DOMAIN suspects :
        /\ suspects[j].status = "approved"
        /\ suspects[j].interrogation # NoInterrogation
        /\ suspects[j].interrogation.captain_final_decision = "True"
        /\ \/ suspects[j].case.crime_level # "critical"
           \/ suspects[j].interrogation.chief_decision = "True"}

\* the persons with a qualifying suspect in a case that is not closed
WantedPersons ==
    {PersonIdentity(suspects[j]) :
        j \in {q \in Qualifying : suspects[q].case.status # "closed"}}

\* C28: a person identity appears in the most-wanted result before truncation
\* exactly when it has a qualifying suspect (approved, captain's decision true,
\* chief's decision true in a critical case) and one such suspect belongs to a
\* case that is not closed; no entry has a ranking of 0 or less.
C28_WantedIffQualifies ==
    most_wanted # NotComputed
       => /\ \A j \in DOMAIN suspects :
                (\E k \in DOMAIN most_wanted.items :
                    PersonIdentity(most_wanted.items[k]) = PersonIdentity(suspects[j]))
                <=> PersonIdentity(suspects[j]) \in WantedPersons
          /\ \A k \in DOMAIN most_wanted.items : most_wanted.items[k].ranking > 0

\* C29: the qualifying suspects that share a person identity are aggregated into
\* exactly one entry, and suspects of different persons never into the same one:
\* the result has one entry for each wanted person.
C29_OneEntryPerPerson ==
    most_wanted # NotComputed
       => /\ Len(most_wanted.items) = Cardinality(WantedPersons)
          /\ \A person \in WantedPersons :
                Cardinality({k \in DOMAIN most_wanted.items :
                                PersonIdentity(most_wanted.items[k]) = person}) = 1

\* the largest number of a non-empty finite set of numbers
Maximum(numbers) == CHOOSE n \in numbers : \A m \in numbers : m <= n

\* the qualifying suspects the view has aggregated into an entry
GroupOf(item) ==
    {j \in Qualifying : _suspect_identity_key(suspects[j]) = item.key}

\* C30: for every most-wanted entry, max_days_wanted is the maximum over the
\* group's qualifying suspects of max(1, days since proposal) for a case that is not
\* closed and 0 for a closed one, max_crime_degree the maximum crime degree
\* (critical 4, level_1 3, level_2 2, level_3 1) over all of them, ranking their
\* product and reward_amount the ranking times 20,000,000, both positive.
C30_EntryMetrics ==
    most_wanted # NotComputed
       => \A k \in DOMAIN most_wanted.items :
             LET item == most_wanted.items[k]
                 days == {IF suspects[j].case.status = "closed" THEN 0
                          ELSE Maximum({1, now - suspects[j].proposed_at}) :
                             j \in GroupOf(item)}
                 degrees == {CASE suspects[j].case.crime_level = "critical" -> 4
                               [] suspects[j].case.crime_level = "level_1" -> 3
                               [] suspects[j].case.crime_level = "level_2" -> 2
                               [] suspects[j].case.crime_level = "level_3" -> 1 :
                                j \in GroupOf(item)}
             IN  /\ GroupOf(item) # {}
                 /\ item.max_days_wanted = Maximum(days)
                 /\ item.max_crime_degree = Maximum(degrees)
                 /\ item.ranking = item.max_days_wanted * item.max_crime_degree
                 /\ item.reward_amount = item.ranking * 20000000
                 /\ item.ranking > 0
                 /\ item.reward_amount > 0

\* a person wanted in an open level_1 case since today and in a closed critical case
C30_Witness ==
    /\ most_wanted # NotComputed
    /\ Len(suspects) = 2
    /\ Len(most_wanted.items) = 1
    /\ Cardinality(GroupOf(most_wanted.items[1])) = 2
    /\ most_wanted.items[1].max_days_wanted = 1
    /\ most_wanted.items[1].max_crime_degree = 4
    /\ most_wanted.items[1].reward_amount = 4 * BaseRewardAmount

(***************************************************************************)
(* The amount of the reward of an approved tip.                            *)
(***************************************************************************)
\* the amount the reward of an approved tip has to carry: a most-wanted reward of
\* the suspect when one is referenced, otherwise the degree of the case times the
\* base amount, otherwise the base amount
ExpectedRewardAmounts ==
    IF tip.suspect # NullId
    THEN {ranking * 20000000 : ranking \in 1..(4 * (MaxTime + 1))}
    ELSE IF tip.case # NullId
    THEN {(CASE case.crime_level = "critical" -> 4
             [] case.crime_level = "level_1" -> 3
             [] case.crime_level = "level_2" -> 2
             [] case.crime_level = "level_3" -> 1) * 20000000}
    ELSE {20000000}

\* C25: the reward created at the approval of a tip carries the most-wanted reward
\* of the referenced suspect, otherwise the crime degree of the referenced case
\* times 20,000,000, otherwise 20,000,000.
C25_RewardAmount ==
    [][(/\ resp'.op = "tip_detective_review"
        /\ tip # NoTip
        /\ tip.status = "forwarded_to_detective"
        /\ tip'.status = "approved")
          => \E i \in DOMAIN rewards' :
                /\ rewards'[i].tip = tip.id
                /\ rewards'[i].reward_amount \in ExpectedRewardAmounts]_vars

\* the same for the tips that reference no suspect
C25_RewardAmountWithoutSuspect ==
    [][(/\ resp'.op = "tip_detective_review"
        /\ tip # NoTip
        /\ tip.suspect = NullId
        /\ tip.status = "forwarded_to_detective"
        /\ tip'.status = "approved")
          => \E i \in DOMAIN rewards' :
                /\ rewards'[i].tip = tip.id
                /\ rewards'[i].reward_amount \in ExpectedRewardAmounts]_vars

(***************************************************************************)
(* Order, length and repeatability of the most-wanted list.                *)
(***************************************************************************)
\* the limit a request asks for: 10 when the parameter is absent or no integer
RequestedLimit ==
    CASE most_wanted.limit = "-1" -> 0 - 1
      [] most_wanted.limit = "0" -> 0
      [] most_wanted.limit = "1" -> 1
      [] most_wanted.limit \in {"ABSENT", "x"} -> 10

\* C31: the most-wanted result is ordered by ranking, highest first, has at most
\* max(limit, 1) entries with limit 10 when absent or not an integer, and is made of
\* the highest-ranking entries: no omitted entry ranks above a returned one.
C31_SortedAndLimited ==
    most_wanted # NotComputed
       => LET data == most_wanted.data
              all == most_wanted.items
              omitted == {k \in DOMAIN all : k > Len(data)}
          IN  /\ \A i, j \in DOMAIN data :
                    i < j => data[i].ranking >= data[j].ranking
              /\ Len(data) <= Maximum({RequestedLimit, 1})
              /\ Len(data) < Maximum({RequestedLimit, 1}) => omitted = {}
              /\ \A i \in DOMAIN data : data[i] = all[i]
              /\ \A k \in omitted, i \in DOMAIN data :
                    all[k].ranking <= data[i].ranking

\* two persons of different rankings, the lower one read first, and a limit of 0:
\* the higher one is returned alone
C31_Witness ==
    /\ most_wanted # NotComputed
    /\ most_wanted.limit = "0"
    /\ Len(most_wanted.items) = 2
    /\ Len(most_wanted.data) = 1
    /\ most_wanted.items[1].ranking > most_wanted.items[2].ranking
    /\ most_wanted.items[1].suspect_id = 2

\* C32: with no write in between, two runs of the most-wanted aggregation on the
\* same day return the same entries in the same order with the same rankings and
\* reward amounts, also when groups have equal rankings.
C32_SameResultTwice ==
    (most_wanted # NotComputed /\ most_wanted.previous # NotComputed)
       => most_wanted.data = most_wanted.previous.data

\* the same when no two suspects were proposed at the same time
C32_SameResultTwiceWithoutTies ==
    (/\ most_wanted # NotComputed
     /\ most_wanted.previous # NotComputed
     /\ \A i, j \in DOMAIN suspects :
           i # j => suspects[i].proposed_at # suspects[j].proposed_at)
       => most_wanted.data = most_wanted.previous.data

(***************************************************************************)
(* Every workflow transition, each workflow on its own, starting from its   *)
(* first entity; every handler is called by one holder of its capability    *)
(* and by users who lack it, with and without access to the case.           *)
(***************************************************************************)
WorkflowCallers(op) ==
    CASE op = "suspect_propose"  -> {"detective", "officer", "captain"}
      [] op = "suspect_review"   -> {"sergeant", "officer", "judge"}
      [] op = "detective_score"  -> {"detective", "officer", "captain"}
      [] op = "sergeant_score"   -> {"sergeant", "officer", "judge"}
      [] op = "captain_decision" -> {"captain", "officer", "judge"}
      [] op = "chief_review"     -> {"chief", "officer", "captain"}
      [] op = "trial_verdict"    -> {"judge", "captain"}

InitWorkflow == InitComplaint \/ InitSuspect \/ InitTip \/ InitScene

NextWorkflowComplaint ==
    /\ complaint # NoComplaint
    /\ \/ \E user \in ComplaintActors : resubmit(user)
       \/ \E user \in ComplaintActors : cadet_review(user)
       \/ \E user \in ComplaintActors : officer_review(user)

NextWorkflowScene ==
    /\ complaint = NoComplaint
    /\ case = NoCase
    /\ \/ \E user \in SceneActors : SceneReportViewSet_create(user)
       \/ \E user \in SceneActors : SceneReportViewSet_approve(user)

NextWorkflowSuspect ==
    /\ tip = NoTip
    /\ \/ \E user \in WorkflowCallers("suspect_propose") : CaseSuspectProposeView_post(user)
       \/ \E user \in WorkflowCallers("suspect_review") : CaseSuspectReviewView_post(user)
       \/ \E user \in WorkflowCallers("detective_score") :
             SuspectInterrogationDetectiveView_post(user)
       \/ \E user \in WorkflowCallers("sergeant_score") :
             SuspectInterrogationSergeantView_post(user)
       \/ \E user \in WorkflowCallers("captain_decision") :
             SuspectInterrogationCaptainDecisionView_post(user)
       \/ \E user \in WorkflowCallers("chief_review") :
             SuspectInterrogationChiefReviewView_post(user)
       \/ \E user \in WorkflowCallers("trial_verdict") : TrialVerdictView_post(user)

NextWorkflowTip ==
    /\ tip # NoTip
    /\ \/ \E user \in TipOfficerReviewCallers : TipOfficerReviewView_post(user)
       \/ \E user \in TipDetectiveReviewCallers : TipDetectiveReviewView_post(user)

NextWorkflow ==
    \/ NextWorkflowComplaint
    \/ NextWorkflowScene
    \/ NextWorkflowSuspect
    \/ NextWorkflowTip

SpecWorkflow == InitWorkflow /\ [][NextWorkflow]_vars

(***************************************************************************)
(* Claims about requests made without the capability of the transition.    *)
(***************************************************************************)
WorkflowOps ==
    {"cadet_review", "officer_review", "scene_approve", "suspect_propose",
     "suspect_review", "detective_score", "sergeant_score", "captain_decision",
     "chief_review", "trial_verdict", "tip_officer_review", "tip_detective_review"}

\* the transitions whose handler looks the case up before it tests the capability
CaseScopedOps ==
    {"suspect_propose", "suspect_review", "detective_score", "sergeant_score",
     "captain_decision", "chief_review"}

\* the actor does not hold the capability the transition asks for
LacksCapability(op, user) ==
    CASE op = "cadet_review"         -> ~user_can_cadet_review_complaint(user)
      [] op = "officer_review"       -> ~user_can_officer_review_complaint(user)
      [] op = "scene_approve"        -> ~user_can_approve_scene_report(user)
      [] op = "suspect_propose"      -> ~user_can_propose_case_suspect(user)
      [] op = "suspect_review"       -> ~user_can_review_case_suspect(user)
      [] op = "detective_score"      -> ~user_can_submit_detective_interrogation(user)
      [] op = "sergeant_score"       -> ~user_can_submit_sergeant_interrogation(user)
      [] op = "captain_decision"     -> ~user_can_submit_captain_interrogation_decision(user)
      [] op = "chief_review"         -> ~user_can_review_critical_interrogation(user)
      [] op = "trial_verdict"        -> ~user_can_judge_verdict_trial(user)
      [] op = "tip_officer_review"   -> ~user_can_officer_review_tip(user)
      [] op = "tip_detective_review" -> ~user_can_detective_review_tip(user)
      [] OTHER -> FALSE

\* C33: a workflow transition requested by an actor who lacks its capability is
\* rejected with PermissionDenied and changes no entity state.
C33_DeniedWithoutCapability ==
    [][(resp'.op \in WorkflowOps /\ LacksCapability(resp'.op, resp'.user))
          => /\ resp'.code \in {"permission_denied", "forbidden"}
             /\ UNCHANGED <<complaintVars, suspectVars, tipVars, sceneVars>>]_vars

\* C33 as the code has it: the request changes no entity state and is rejected with
\* PermissionDenied, or with NotFound when the handler looks the case up first and
\* the actor can neither see all cases nor access this one.
C33_RefusedWithoutCapability ==
    [][(resp'.op \in WorkflowOps /\ LacksCapability(resp'.op, resp'.user))
          => /\ \/ resp'.code \in {"permission_denied", "forbidden"}
                \/ /\ resp'.code = "not_found"
                   /\ resp'.op \in CaseScopedOps
                   /\ ~user_can_view_all_cases(resp'.user)
                   /\ ~user_can_access_case(resp'.user, case)
             /\ UNCHANGED <<complaintVars, suspectVars, tipVars, sceneVars>>]_vars

\* an officer, who cannot access the case, has asked for the chief review of a
\* suspect the captain has decided on
C33_Witness ==
    /\ resp.op = "chief_review"
    /\ resp.user = "officer"
    /\ resp.code = "not_found"
    /\ interrogation # NoInterrogation
    /\ interrogation.captain_final_decision = "True"

(***************************************************************************)
(* Cadet reviews of one complaint handled concurrently.  A request reads   *)
(* the complaint with get_object() into its own copy and tests the state   *)
(* and the payload on that copy; the transaction.atomic() block then locks *)
(* the ComplaintComplainant rows (select_for_update, only when the payload *)
(* lists ids), writes them and saves the request's copy of the complaint.  *)
(* The block commits as one step at READ COMMITTED; the complaint row is   *)
(* neither locked nor read again inside it.                                *)
(***************************************************************************)
CadetRaceUser(r) == IF r % 2 = 1 THEN "cadet" ELSE "admin"

CadetFaults == {"none", "complaint_save"}

NewCadetRequest ==
    [pc |-> "read", decision |-> "none", message |-> Absent,
     approve_ids |-> {}, reject_ids |-> {}, local |-> NoComplaint, code |-> "none"]

\* self.get_object(), the state checks and the serializer, on the request's copy
cadet_review_read(r) ==
    /\ r \in DOMAIN requests
    /\ requests[r].pc = "read"
    /\ LET pre == cadet_review_precheck(CadetRaceUser(r)) IN
       IF pre # "ok"
       THEN requests' = [requests EXCEPT ![r].pc = "done", ![r].code = pre]
       ELSE \E decision \in Decisions, message \in RaceMessageInputs,
               approve_ids \in IdListInputs, reject_ids \in IdListInputs :
               requests' = [requests EXCEPT ![r] =
                   IF ~ReviewSerializer_validate(decision, message)
                   THEN [NewCadetRequest EXCEPT !.pc = "done",
                                                !.code = "validation_error"]
                   ELSE [pc |-> "write", decision |-> decision, message |-> message,
                         approve_ids |-> approve_ids, reject_ids |-> reject_ids,
                         local |-> complaint, code |-> "none"]]
    /\ UNCHANGED <<complaintVars, suspectVars, tipVars, sceneVars, wantedVars, resp>>

\* the transaction.atomic() block: the rows of the complainants as they are now,
\* then complaint.save() of the request's whole copy
cadet_review_write(r) ==
    /\ r \in DOMAIN requests
    /\ requests[r].pc = "write"
    /\ \E fault \in CadetFaults :
          LET req == requests[r]
              before == <<complaint, complainants>>
              written == <<cadet_review_apply(req.local, CadetRaceUser(r),
                                              req.decision, req.message),
                           cadet_review_complainants(complainants, CadetRaceUser(r),
                                                     req.approve_ids, req.reject_ids)>>
              after == transaction_atomic(before, written, fault # "none")
          IN  /\ complaint' = after[1]
              /\ complainants' = after[2]
              /\ requests' = [requests EXCEPT
                                ![r].pc = "done",
                                ![r].code = IF fault = "none" THEN "ok"
                                            ELSE "server_error"]
    /\ UNCHANGED <<cases, participants>>
    /\ UNCHANGED <<suspectVars, tipVars, sceneVars, wantedVars, resp>>

InitCadetRace ==
    /\ complaint = NewComplaint("citizen")
    /\ complainants = NewComplainants("citizen", {"citizen2"})
    /\ cases = <<>>
    /\ participants = {}
    /\ NoInvestigation
    /\ NoTipWorld
    /\ NoSceneWorld
    /\ NoWantedWorld
    /\ requests = [r \in 1..NumRequests |-> NewCadetRequest]
    /\ resp = NoResp

NextCadetRace ==
    \/ \E r \in 1..NumRequests : cadet_review_read(r)
    \/ \E r \in 1..NumRequests : cadet_review_write(r)

SpecCadetRace == InitCadetRace /\ [][NextCadetRace]_vars

\* what one applied review makes of the complainant entries the complaint began with
EntriesAfter(req) ==
    [u \in {"citizen", "citizen2"} |->
        IF u \in req.reject_ids THEN [status |-> "rejected"]
        ELSE IF u \in req.approve_ids THEN [status |-> "approved"]
        ELSE NewComplainants("citizen", {"citizen2"})[u]]

\* C34: the entry updates and the complaint-level status of one cadet review are
\* applied all or nothing, and never mixed with those of a concurrent review: the
\* complaint and its entries are as they began, or as one applied review made them.
C34_CadetReviewWhole ==
    \/ /\ complaint.current_status = "submitted"
       /\ complainants = NewComplainants("citizen", {"citizen2"})
    \/ \E r \in DOMAIN requests :
          /\ requests[r].code = "ok"
          /\ complaint.cadet_reviewed_by = CadetRaceUser(r)
          /\ complaint.current_status = IF requests[r].decision = "reject"
                                        THEN "cadet_rejected" ELSE "cadet_approved"
          /\ complainants = EntriesAfter(requests[r])

(***************************************************************************)
(* The Case an officer approval creates.                                   *)
(***************************************************************************)
\* C35: an officer approval of a complaint that has no case creates exactly one
\* Case with the complaint's current title, description and crime_level, and the
\* participants it creates are exactly the users of the complaint's Complainant
\* entries that are approved at that moment.
C35_CaseCopiesComplaint ==
    [][(/\ resp'.op = "officer_review"
        /\ resp'.code = "ok"
        /\ resp'.decision = "approve"
        /\ complaint.case = NullId)
          => /\ Len(cases') = Len(cases) + 1
             /\ SubSeq(cases', 1, Len(cases)) = cases
             /\ LET created == cases'[Len(cases')] IN
                   /\ created.title = complaint.title
                   /\ created.description = complaint.description
                   /\ created.crime_level = complaint.crime_level
                   /\ complaint'.case = created.id
                   /\ \A i \in DOMAIN cases : cases[i].id # created.id
                   /\ participants' \ participants =
                         {<<created.id, u>> :
                             u \in {v \in DOMAIN complainants :
                                       complainants[v].status = "approved"}}
                   /\ participants \subseteq participants']_vars

\* a resubmitted complaint whose second complainant is not approved has become a
\* case with the new title and the creator as its only participant
C35_Witness ==
    /\ resp.op = "officer_review"
    /\ resp.code = "ok"
    /\ complaint # NoComplaint
    /\ complaint.invalid_attempts > 0
    /\ Len(cases) = 1
    /\ cases[1].title = complaint.title
    /\ cases[1].title # NewComplaint("citizen").title
    /\ "citizen2" \in DOMAIN complainants
    /\ complainants["citizen2"].status # "approved"
    /\ participants = {<<1, "citizen">>}

(***************************************************************************)
(* The Interrogation record and its slots.                                 *)
(***************************************************************************)
\* C36: the Interrogation of a suspect is created on the first score submission:
\* one exists only if a detective or a sergeant score has been submitted, and a
\* captain decision or chief review that is rejected (missing_scores,
\* missing_captain_decision) creates none and changes no state.
C36_InterrogationOnlyAfterScore ==
    [][/\ interrogation' # NoInterrogation
            => \/ interrogation'.detective_score # NoScore
               \/ interrogation'.sergeant_score # NoScore
       /\ resp'.code \in {"missing_scores", "missing_captain_decision"}
            => UNCHANGED <<suspectVars, complaintVars>>]_vars

\* the slots of an Interrogation other than the two scores
DecisionSlots(row) ==
    IF row = NoInterrogation
    THEN <<None, <<>>, Nobody, None, <<>>, Nobody>>
    ELSE <<row.captain_final_decision, row.captain_reasoning, row.captain_decided_by,
           row.chief_decision, row.chief_message, row.chief_reviewed_by>>

\* C37: a detective score that is submitted overwrites the detective slot only: the
\* sergeant score, the captain's decision and reasoning, the chief's decision and
\* message, the suspect and the Trial stay as they are, and the same holds for a
\* sergeant score with the detective slot; also after the captain or the chief
\* has decided.
C37_ScoreWritesItsSlotOnly ==
    [][/\ (resp'.op = "detective_score" /\ resp'.code = "ok")
            => /\ interrogation'.detective_submitted_by = resp'.user
               /\ interrogation'.sergeant_score =
                     IF interrogation = NoInterrogation THEN NoScore
                     ELSE interrogation.sergeant_score
               /\ interrogation'.sergeant_submitted_by =
                     IF interrogation = NoInterrogation THEN Nobody
                     ELSE interrogation.sergeant_submitted_by
               /\ DecisionSlots(interrogation') = DecisionSlots(interrogation)
               /\ UNCHANGED <<case, suspect, trial>>
       /\ (resp'.op = "sergeant_score" /\ resp'.code = "ok")
            => /\ interrogation'.sergeant_submitted_by = resp'.user
               /\ interrogation'.detective_score =
                     IF interrogation = NoInterrogation THEN NoScore
                     ELSE interrogation.detective_score
               /\ interrogation'.detective_submitted_by =
                     IF interrogation = NoInterrogation THEN Nobody
                     ELSE interrogation.detective_submitted_by
               /\ DecisionSlots(interrogation') = DecisionSlots(interrogation)
               /\ UNCHANGED <<case, suspect, trial>>]_vars

\* a detective score submitted again after the captain, the chief and the judge
\* have decided
C37_Witness ==
    /\ resp.op = "detective_score"
    /\ resp.code = "ok"
    /\ interrogation # NoInterrogation
    /\ interrogation.sergeant_score # NoScore
    /\ interrogation.captain_final_decision = "True"
    /\ interrogation.chief_decision = "True"
    /\ trial # NoTrial

(***************************************************************************)
(* Who resubmits, and how often a complaint is rejected by a cadet.        *)
(***************************************************************************)
\* C38: a resubmit is applied only for the creator of the complaint or one of its
\* listed complainants; a resubmit asked for by any other user, a reviewer who
\* can view all complaints included, changes neither the status nor
\* invalid_attempts.
C38_OnlyComplainantsResubmit ==
    [][(/\ resp'.op = "resubmit"
        /\ complaint # NoComplaint
        /\ resp'.user # complaint.created_by
        /\ resp'.user \notin DOMAIN complainants)
          => /\ complaint'.current_status = complaint.current_status
             /\ complaint'.invalid_attempts = complaint.invalid_attempts]_vars

\* C39: in every reachable state a recorded Trial verdict has its approvals: the
\* captain's decision of the suspect is true and, in a critical case, the chief's
\* decision is true; no later captain decision or chief review takes them away.
C39_VerdictKeepsApprovals ==
    (trial # NoTrial /\ trial.verdict # None)
       => /\ interrogation # NoInterrogation
          /\ interrogation.captain_final_decision = "True"
          /\ case.crime_level = "critical" => interrogation.chief_decision = "True"

\* C40: over any sequence of cadet reviews, officer reviews and resubmits a
\* complaint enters cadet_rejected at most three times.  It enters with
\* invalid_attempts unchanged and below 3, it leaves only by a resubmit, which adds
\* one to invalid_attempts, the count never goes down and the third increment makes
\* the complaint invalid: the entries happen at the counts 0, 1 and 2.
C40_AtMostThreeCadetRejections ==
    [][/\ (complaint.current_status # "cadet_rejected"
           /\ complaint'.current_status = "cadet_rejected")
            => /\ resp'.op = "cadet_review"
               /\ complaint'.invalid_attempts = complaint.invalid_attempts
               /\ complaint.invalid_attempts \in {0, 1, 2}
       /\ (complaint.current_status = "cadet_rejected"
           /\ complaint'.current_status # "cadet_rejected")
            => /\ resp'.op = "resubmit"
               /\ complaint'.invalid_attempts = complaint.invalid_attempts + 1
               /\ complaint'.current_status =
                     IF complaint.invalid_attempts = 2 THEN "invalid" ELSE "submitted"
       /\ complaint'.invalid_attempts >= complaint.invalid_attempts
       /\ complaint.current_status = "invalid"
            => complaint'.current_status = "invalid"]_vars

\* the third rejection by a cadet, of a complaint an officer had sent back before
C40_Witness ==
    /\ resp.op = "cadet_review"
    /\ resp.code = "ok"
    /\ complaint.current_status = "cadet_rejected"
    /\ complaint.invalid_attempts = 2
    /\ complaint.officer_reviewed_by # Nobody

====
